---- MODULE Spec2Model ----
(***************************************************************************)
(* memory-qdrant-mcp: the result caches (src/src/cache.ts) and the         *)
(* structured-context engine of the memory store (memoryBankTools.ts,      *)
(* contextTools.ts, init.ts).                                              *)
(*                                                                         *)
(* Strings that the code builds from parts (cache keys) are sequences of   *)
(* tokens in which the separator ":" is a token of its own, so that        *)
(* String.prototype.includes is a search for a contiguous run of tokens.   *)
(* A JS Map is a sequence of entries in insertion order.                   *)
(***************************************************************************)
EXTENDS Integers, Sequences, FiniteSets, TLC

----------------------------------------------------------------------------
(* Bounds of the model *)

\* capacity the LRUCache under test is constructed with
MaxSize == 2
\* number of distinct keys offered to the LRUCache under test
NumKeys == 3
\* the clock (Date.now()) of the LRUCache under test runs from 0 to MaxTime
MaxTime == 1
\* ttl arguments of set() range over 0..MaxTtl
MaxTtl == 1

\* config.CACHE_TTL_SECONDS * 1000, the default ttl of set(), in clock ticks
\* (the environment sets it: parseInt(process.env.CACHE_TTL_SECONDS || "300"))
DefaultTtl == 1
\* structured entries a project may hold before the model stops writing
MaxEntries == 3
\* plain (logMemory) entries a project may hold before the model stops writing
MaxPlain == 1

LruKeyNames == <<"k1", "k2", "k3", "k4", "k5">>
LruKeys == {<<LruKeyNames[i]>> : i \in 1..NumKeys}
LruValues == {"v1", "v2"}

\* what get()/getCached() return for a missing key
Null == "null"

VARIABLES
    now,        \* Date.now()
    lru,        \* LRUCache.cache of the instance under test: a Map, in insertion order
    lruRet,     \* the last call on that instance: its arguments, its result, the keys it removed
    recency     \* history: the keys in the order of their last get or set call, oldest first

lruVars == <<now, lru, lruRet, recency>>

VARIABLES
    db,             \* the vector store: [collections, points], points in upsert order
    queryCache,     \* LRUCache.cache of queryCache
    contextCache,   \* LRUCache.cache of contextCache
    patternCache,   \* LRUCache.cache of patternCache
    ret             \* the last store operation: its arguments and its result

storeVars == <<db, queryCache, contextCache, patternCache, ret>>

VARIABLES
    retryRet,   \* the last withRetry call: its policy, the operation's behaviour, what it did
    embedRet,   \* the last embedTexts call: its texts, the calls it made, its vectors
    batch       \* the batchQueryMemory call in flight, or the last one that returned

VARIABLES
    embedding,    \* embeddingCache (its Map) and the last getCachedEmbeddings call
    queryOrigin,  \* history: the arguments of the call that stored each queryCache key
    tasks         \* the calls of concurrent callers that are suspended on the store

VARIABLES
    chunking,     \* the last chunkText / preprocessText call: its text and what it made
    summarizing,  \* the last summarizeText call: its input, the calls it made, its result
    legacy        \* the legacy LRUCache (server/cache.js): its Map and its last result

pureVars == <<chunking, summarizing, legacy>>

moreVars == <<embedding, queryOrigin, tasks, pureVars>>

auxVars == <<retryRet, embedRet, batch, moreVars>>

vars == <<now, lru, lruRet, recency, db, queryCache, contextCache, patternCache, ret,
          retryRet, embedRet, batch, embedding, queryOrigin, tasks,
          chunking, summarizing, legacy>>

----------------------------------------------------------------------------
(* Map<string, CacheItem>: a sequence of [key, value, expiry], insertion order *)

MapHas(c, k) == \E i \in 1..Len(c) : c[i].key = k

MapGet(c, k) == c[CHOOSE i \in 1..Len(c) : c[i].key = k]

MapDelete(c, k) == SelectSeq(c, LAMBDA e : e.key # k)

\* Map.set: an existing key keeps its place, a new key goes last
MapSet(c, k, item) ==
    IF MapHas(c, k)
    THEN [i \in 1..Len(c) |-> IF c[i].key = k THEN item ELSE c[i]]
    ELSE Append(c, item)

MapKeys(c) == {c[i].key : i \in 1..Len(c)}

----------------------------------------------------------------------------
(* class LRUCache: each method gives the Map after the call and the result *)

\* a get() that leaves the entry where it is
LRUGet_NoMove(c, k) ==
    IF ~MapHas(c, k)
    THEN [cache |-> c, ret |-> Null]
    ELSE [cache |-> c, ret |-> MapGet(c, k).value]

LRUGet(c, k) ==
    IF ~MapHas(c, k)
    THEN [cache |-> c, ret |-> Null]
    ELSE LET item == MapGet(c, k)
         IN  [cache |-> MapSet(MapDelete(c, k), k, item), ret |-> item.value]

\* a set() that evicts only once the Map is over capacity
LRUSet_OffByOne(c, maxSize, k, v, ttl, t) ==
    LET c1 == IF MapHas(c, k) THEN MapDelete(c, k)
              ELSE IF Len(c) > maxSize
                   THEN (IF Len(c) > 0 THEN MapDelete(c, c[1].key) ELSE c)
                   ELSE c
    IN  MapSet(c1, k, [key |-> k, value |-> v, expiry |-> t + ttl])

LRUSet(c, maxSize, k, v, ttl, t) ==
    LET c1 == IF MapHas(c, k) THEN MapDelete(c, k)
              ELSE IF Len(c) >= maxSize
                   THEN (IF Len(c) > 0 THEN MapDelete(c, c[1].key) ELSE c)
                   ELSE c
    IN  MapSet(c1, k, [key |-> k, value |-> v, expiry |-> t + ttl])

LRUHas(c, k, t) ==
    IF ~MapHas(c, k)
    THEN [cache |-> c, ret |-> FALSE]
    ELSE IF t > MapGet(c, k).expiry
         THEN [cache |-> MapDelete(c, k), ret |-> FALSE]
         ELSE [cache |-> c, ret |-> TRUE]

LRUClear(c) == << >>

LRUSize(c, t) ==
    LET c1 == SelectSeq(c, LAMBDA e : ~(t > e.expiry))
    IN  [cache |-> c1, ret |-> Len(c1)]

\* cacheUtils.getCached: has(), then get()
getCached(c, k, t) ==
    LET h == LRUHas(c, k, t)
    IN  IF ~h.ret THEN [cache |-> h.cache, ret |-> Null]
        ELSE LRUGet(h.cache, k)

\* cacheUtils.setCached
setCached(c, maxSize, k, v, ttl, t) == LRUSet(c, maxSize, k, v, ttl, t)

----------------------------------------------------------------------------
(* server/cache.js: the legacy LRUCache and its cacheUtils.getCached. What a *)
(* call returns is kept with its JavaScript type, so that an item object and *)
(* a value can be told apart.                                                *)

JsNull == [typeof |-> "null"]
JsString(v) == [typeof |-> "string", value |-> v]
\* the item { value, expiry } the Map holds for a key
JsItem(item) == [typeof |-> "object", value |-> item.value, expiry |-> item.expiry]

\* what the TypeScript cache returned, with its type
JsOf(v) == IF v = Null THEN JsNull ELSE JsString(v)

\* get(): `const value = this.cache.get(key)` is the item, and it is returned
Legacy_get(c, k) ==
    IF ~MapHas(c, k)
    THEN [cache |-> c, ret |-> JsNull]
    ELSE LET value == MapGet(c, k)
         IN  [cache |-> MapSet(MapDelete(c, k), k, value), ret |-> JsItem(value)]

Legacy_set(c, maxSize, k, v, ttl, t) ==
    LET c1 == IF MapHas(c, k) THEN MapDelete(c, k)
              ELSE IF Len(c) >= maxSize
                   THEN (IF Len(c) > 0 THEN MapDelete(c, c[1].key) ELSE c)
                   ELSE c
    IN  MapSet(c1, k, [key |-> k, value |-> v, expiry |-> t + ttl])

Legacy_has(c, k, t) ==
    IF ~MapHas(c, k)
    THEN [cache |-> c, ret |-> FALSE]
    ELSE IF t > MapGet(c, k).expiry
         THEN [cache |-> MapDelete(c, k), ret |-> FALSE]
         ELSE [cache |-> c, ret |-> TRUE]

Legacy_size(c, t) ==
    LET c1 == SelectSeq(c, LAMBDA e : ~(t > e.expiry))
    IN  [cache |-> c1, ret |-> Len(c1)]

\* the legacy cacheUtils.getCached: has(), then get()
Legacy_getCached(c, k, t) ==
    LET h == Legacy_has(c, k, t)
    IN  IF ~h.ret THEN [cache |-> h.cache, ret |-> JsNull]
        ELSE Legacy_get(h.cache, k)

\* the legacy cache after a call, and what the call returned
LegacyCall(c, value, present, size) ==
    [cache |-> c, value |-> value, present |-> present, size |-> size]

----------------------------------------------------------------------------
(* cache.ts: the shared cache instances, cacheKeys, cacheUtils *)

\* new LRUCache(100), new LRUCache(50), new LRUCache(config.QUERY_CACHE_SIZE)
ContextCacheSize == 100
PatternCacheSize == 50
QueryCacheSize == 500
\* queryText.slice(0, 50)
QuerySliceLen == 50

Slice(text, n) == SubSeq(text, 1, IF Len(text) < n THEN Len(text) ELSE n)

cacheKeys_query(projectName, queryText, memoryType, topK) ==
    <<"query", ":", projectName, ":">> \o Slice(queryText, QuerySliceLen)
        \o <<":", IF memoryType = Null THEN "all" ELSE memoryType, ":", ToString(topK)>>

cacheKeys_structuredContext(projectName, contextType) ==
    <<"context", ":", projectName, ":", contextType>>

cacheKeys_systemPatterns(projectName) == <<"patterns", ":", projectName>>

\* String.prototype.includes
Includes(str, pat) ==
    \E i \in 1..(Len(str) - Len(pat) + 1) : SubSeq(str, i, i + Len(pat) - 1) = pat

\* the loop of invalidateProjectCache over one cache
InvalidateIn(c, projectName) ==
    SelectSeq(c, LAMBDA e : ~Includes(e.key, <<":", projectName, ":">>))

\* cacheUtils.invalidateProjectCache over [queryCache, contextCache, patternCache]
invalidateProjectCache(caches, projectName) ==
    [query   |-> InvalidateIn(caches.query, projectName),
     context |-> InvalidateIn(caches.context, projectName),
     pattern |-> InvalidateIn(caches.pattern, projectName)]

----------------------------------------------------------------------------
(* memoryBankTools.ts getCachedEmbeddings over embeddingCache. A text is a  *)
(* sequence of characters; the vector a provider makes of a text is kept as *)
(* the text it was made of.                                                 *)

\* new LRUCache(config.EMBEDDING_CACHE_SIZE)
EmbeddingCacheSize == 1000
\* text.slice(0, 50)
EmbedSliceLen == 50

cacheKeys_embedding(text) ==
    <<"embed", ":", ToString(Len(text)), ":">> \o Slice(text, EmbedSliceLen)

\* provider.embedTexts: one vector per text, made of that text
EmbeddingOf(text) == [of |-> text]
NoEmbedding == [of |-> << >>]

\* the first forEach: the cached vectors, and the indices of the other texts
\* (a vector is an array, which is truthy: `if (cached)` is taken exactly when
\* has() answered true)
RECURSIVE embedLookup(_, _, _, _, _, _)
embedLookup(cache, texts, index, results, uncachedIndices, t) ==
    IF index > Len(texts)
    THEN [cache |-> cache, results |-> results, uncachedIndices |-> uncachedIndices]
    ELSE LET cached == getCached(cache, cacheKeys_embedding(texts[index]), t)
         IN  IF LRUHas(cache, cacheKeys_embedding(texts[index]), t).ret
             THEN embedLookup(cached.cache, texts, index + 1,
                              [results EXCEPT ![index] = cached.ret], uncachedIndices, t)
             ELSE embedLookup(cached.cache, texts, index + 1, results,
                              Append(uncachedIndices, index), t)

\* the second forEach: each new vector is cached and put at its text's index
RECURSIVE embedStore(_, _, _, _, _, _)
embedStore(cache, texts, uncachedIndices, i, results, t) ==
    IF i > Len(uncachedIndices)
    THEN [cache |-> cache, results |-> results]
    ELSE LET text == texts[uncachedIndices[i]]
             newEmbedding == EmbeddingOf(text)
         IN  embedStore(setCached(cache, EmbeddingCacheSize, cacheKeys_embedding(text),
                                  newEmbedding, DefaultTtl, t),
                        texts, uncachedIndices, i + 1,
                        [results EXCEPT ![uncachedIndices[i]] = newEmbedding], t)

getCachedEmbeddings(cache, texts, t) ==
    LET looked == embedLookup(cache, texts, 1, [i \in 1..Len(texts) |-> NoEmbedding],
                              << >>, t)
    IN  embedStore(looked.cache, texts, looked.uncachedIndices, 1, looked.results, t)

----------------------------------------------------------------------------
(* The vector store (Qdrant), init.ts, and the JSON objects kept in it *)

Projects == {"p", "q"}
STRUCTURED_CONTEXT_TYPES == {"productContext", "activeContext"}
MEMORY_TYPES == <<"productContext", "activeContext", "systemPatterns", "decisionLog",
                  "progress", "contextHistory", "customData">>
SYSTEM_PATTERN_TYPE == "systemPatterns"

\* A JSON object over the keys ObjKeys: a key the object lacks maps to
\* Undefined. JSON scalars are written as their JSON text.
ObjKeys == {"a", "b"}
Undefined == "undefined"
Scalars == {"1", "2"}
DELETE == "__DELETE__"
Objects == [ObjKeys -> Scalars \cup {Undefined}]
Patches == [ObjKeys -> Scalars \cup {Undefined, DELETE}]
EmptyObject == [k \in ObjKeys |-> Undefined]

\* JSON.stringify of an object, a string left as it is, and JSON.parse, which
\* throws on a string that is no JSON text
JSONstringify(v) == [text |-> "json", val |-> v]
PlainText(str) == [text |-> "plain", val |-> str]
JSONparses(c) == c.text = "json"
JSONparse(c) == c.val

\* uuidv4(): an id no point has
NewId(d) == Len(d.points) + 1

\* client.upsert of one point: a point with that id is replaced, another is added
Upsert(d, pt) ==
    IF \E i \in 1..Len(d.points) : d.points[i].id = pt.id
    THEN [d EXCEPT !.points = [i \in 1..Len(d.points) |->
                                  IF d.points[i].id = pt.id THEN pt ELSE d.points[i]]]
    ELSE [d EXCEPT !.points = Append(@, pt)]

\* initMemoryBank: creates the collection on first touch, with one placeholder
\* point per memory type
initMemoryBank(d, projectName, t) ==
    IF projectName \in d.collections THEN d
    ELSE [collections |-> d.collections \cup {projectName},
          points |-> d.points \o
              [i \in 1..Len(MEMORY_TYPES) |->
                  [id |-> Len(d.points) + i,
                   payload |-> [type |-> MEMORY_TYPES[i],
                                content |-> PlainText(<<"Initial placeholder for", MEMORY_TYPES[i]>>),
                                timestamp |-> t,
                                project |-> projectName]]]]

\* a filter's "must": every condition names a payload field the point has, with
\* that value
Matches(pt, must) ==
    \A cond \in must : cond[1] \in DOMAIN pt.payload /\ pt.payload[cond[1]] = cond[2]

RECURSIVE Rankings(_, _)
Rankings(S, n) ==
    IF n = 0 \/ S = {} THEN {<< >>}
    ELSE UNION {{<<x>> \o r : r \in Rankings(S \ {x}, n - 1)} : x \in S}

\* client.search: the `limit` matching points of the project's collection that
\* are most similar to the query vector. The vectors come from the embedding
\* provider (random under FastEmbedProvider) and the ranking is the store's:
\* any order of the matching points can be the answer.
Search(d, projectName, must, limit) ==
    Rankings({d.points[i] : i \in {j \in 1..Len(d.points) :
                  /\ d.points[j].payload.project = projectName
                  /\ Matches(d.points[j], must)}}, limit)

----------------------------------------------------------------------------
(* memoryBankTools.ts: each handler gives the set of its possible outcomes,  *)
(* a record of the store and the caches after the call and of its result.   *)
(* The embedding vectors are not kept: a point's vector only decides its    *)
(* rank in Search.                                                          *)

\* topLevelId = null
NoId == 0

Caches(q, c, pt) == [query |-> q, context |-> c, pattern |-> pt]

\* a logMemory that checks the kind only after the collection is there and
\* the project's cache entries are gone
logMemory_ValidatesLate(d, caches, projectName, memoryType, content, topLevelId, t) ==
    LET d1 == initMemoryBank(d, projectName, t)
        pointId == IF topLevelId # NoId THEN topLevelId ELSE NewId(d1)
        point == [id |-> pointId,
                  payload |-> [type |-> memoryType, content |-> content,
                               timestamp |-> t, project |-> projectName]]
    IN  IF \A i \in 1..Len(MEMORY_TYPES) : MEMORY_TYPES[i] # memoryType
        THEN [db |-> d1, caches |-> invalidateProjectCache(caches, projectName),
              id |-> NoId, threw |-> TRUE, embedded |-> << >>]
        ELSE [db |-> Upsert(d1, point),
              caches |-> invalidateProjectCache(caches, projectName),
              id |-> pointId, threw |-> FALSE, embedded |-> <<content>>]

\* embedded: the texts handed to getCachedEmbeddings
logMemory(d, caches, projectName, memoryType, content, topLevelId, t) ==
    IF \A i \in 1..Len(MEMORY_TYPES) : MEMORY_TYPES[i] # memoryType
    THEN [db |-> d, caches |-> caches, id |-> NoId, threw |-> TRUE, embedded |-> << >>]
    ELSE LET d1 == initMemoryBank(d, projectName, t)
             pointId == IF topLevelId # NoId THEN topLevelId ELSE NewId(d1)
             point == [id |-> pointId,
                       payload |-> [type |-> memoryType, content |-> content,
                                    timestamp |-> t, project |-> projectName]]
         IN  [db |-> Upsert(d1, point),
              caches |-> invalidateProjectCache(caches, projectName),
              id |-> pointId, threw |-> FALSE, embedded |-> <<content>>]

logStructuredMemory(d, caches, projectName, contextType, content, topLevelId, t) ==
    IF contextType \notin STRUCTURED_CONTEXT_TYPES
    THEN [db |-> d, caches |-> caches, id |-> NoId, threw |-> TRUE]
    ELSE LET d1 == initMemoryBank(d, projectName, t)
             pointId == IF topLevelId # NoId THEN topLevelId ELSE NewId(d1)
             point == [id |-> pointId,
                       payload |-> [type |-> contextType, content |-> JSONstringify(content),
                                    structured |-> TRUE, timestamp |-> t,
                                    project |-> projectName]]
         IN  [db |-> Upsert(d1, point), caches |-> caches, id |-> pointId, threw |-> FALSE]

StructuredMust(projectName, contextType) ==
    {<<"project", projectName>>, <<"type", contextType>>, <<"structured", TRUE>>}

\* the value getStructuredContext makes of the hits of its search
ContextOfHits(results) ==
    IF Len(results) = 0 THEN EmptyObject
    ELSE IF JSONparses(results[1].payload.content)
         THEN JSONparse(results[1].payload.content)
         ELSE results[1].payload.content.val

\* The cached values are objects and arrays, which are truthy: `if (cachedResult)`
\* is taken exactly when has() answered true. A search in a collection that
\* does not exist is rejected by the store.
getStructuredContext(d, caches, projectName, contextType, t) ==
    LET cacheKey == cacheKeys_structuredContext(projectName, contextType)
        cached == getCached(caches.context, cacheKey, t)
    IN  IF contextType \notin STRUCTURED_CONTEXT_TYPES
        THEN {[db |-> d, caches |-> caches, value |-> EmptyObject, hit |-> FALSE, threw |-> TRUE]}
        ELSE IF LRUHas(caches.context, cacheKey, t).ret
        THEN {[db |-> d, caches |-> [caches EXCEPT !.context = cached.cache],
               value |-> cached.ret, hit |-> TRUE, threw |-> FALSE]}
        ELSE IF projectName \notin d.collections
        THEN {[db |-> d, caches |-> [caches EXCEPT !.context = cached.cache],
               value |-> EmptyObject, hit |-> FALSE, threw |-> TRUE]}
        ELSE {[db |-> d,
               caches |-> [caches EXCEPT !.context =
                   setCached(cached.cache, ContextCacheSize, cacheKey,
                             ContextOfHits(results), DefaultTtl, t)],
               value |-> ContextOfHits(results), hit |-> FALSE, threw |-> FALSE] :
                 results \in Search(d, projectName,
                                    StructuredMust(projectName, contextType), 1)}

\* { ...currentContext, ...patchContent }, then the delete of the sentinel keys
ApplyPatch(currentContext, patchContent) ==
    LET spread == [k \in ObjKeys |->
                      IF patchContent[k] # Undefined THEN patchContent[k]
                      ELSE currentContext[k]]
    IN  [k \in ObjKeys |-> IF patchContent[k] = DELETE THEN Undefined ELSE spread[k]]

updateStructuredContext(d, caches, projectName, contextType, patchContent, t) ==
    IF contextType \notin STRUCTURED_CONTEXT_TYPES
    THEN {[db |-> d, caches |-> caches, id |-> NoId, threw |-> TRUE,
           previous |-> EmptyObject, new |-> EmptyObject]}
    ELSE
    {IF g.threw
     THEN [db |-> g.db, caches |-> g.caches, id |-> NoId, threw |-> TRUE,
           previous |-> EmptyObject, new |-> EmptyObject]
     ELSE LET currentContext == g.value
              updatedContext == ApplyPatch(currentContext, patchContent)
              w == logStructuredMemory(g.db, g.caches, projectName, contextType,
                                       updatedContext, NoId, t)
              historyEntry == [contextType |-> contextType,
                               previousVersion |-> currentContext,
                               newVersion |-> updatedContext,
                               changes |-> patchContent,
                               timestamp |-> t,
                               pointId |-> w.id]
              h == logMemory(w.db, w.caches, projectName, "contextHistory",
                             JSONstringify(historyEntry), NoId, t)
          IN  [db |-> h.db,
               caches |-> [h.caches EXCEPT !.context =
                   MapDelete(@, cacheKeys_structuredContext(projectName, contextType))],
               id |-> w.id, threw |-> FALSE,
               previous |-> currentContext, new |-> updatedContext]
     : g \in getStructuredContext(d, caches, projectName, contextType, t)}

\* limit of the search of getKnowledgeLinks (100 in the code, fewer here so
\* that a project can hold more links than one search returns)
LinkSearchLimit == 2

KNOWLEDGE_LINK_TYPE == "knowledgeLink"

createKnowledgeLink(d, projectName, sourceId, targetId, linkType, t) ==
    LET d1 == initMemoryBank(d, projectName, t)
        linkContent == [sourceId |-> sourceId, targetId |-> targetId,
                        linkType |-> linkType, timestamp |-> t]
        pointId == NewId(d1)
        point == [id |-> pointId,
                  payload |-> [type |-> KNOWLEDGE_LINK_TYPE,
                               content |-> JSONstringify(linkContent),
                               sourceId |-> sourceId, targetId |-> targetId,
                               linkType |-> linkType, timestamp |-> t,
                               project |-> projectName]]
    IN  [db |-> Upsert(d1, point), id |-> pointId]

\* the client-side filter of getKnowledgeLinks
LinkFilter(payload, entityId, direction) ==
    \/ direction \in {"outgoing", "both"} /\ payload.sourceId = entityId
    \/ direction \in {"incoming", "both"} /\ payload.targetId = entityId

LinksOfHits(results) ==
    [i \in 1..Len(results) |->
        [id |-> results[i].id, sourceId |-> results[i].payload.sourceId,
         targetId |-> results[i].payload.targetId,
         linkType |-> results[i].payload.linkType,
         timestamp |-> results[i].payload.timestamp]]

\* a search in a collection that does not exist is rejected: the catch returns []
getKnowledgeLinks(d, projectName, entityId, linkType, direction) ==
    LET must == {<<"project", projectName>>, <<"type", KNOWLEDGE_LINK_TYPE>>} \cup
                (IF linkType # Null THEN {<<"linkType", linkType>>} ELSE {})
    IN  IF projectName \notin d.collections THEN {<< >>}
        ELSE {LinksOfHits(SelectSeq(allLinks,
                  LAMBDA hit : LinkFilter(hit.payload, entityId, direction))) :
                allLinks \in Search(d, projectName, must, LinkSearchLimit)}

\* client.upsert of several points in one request
RECURSIVE UpsertPoints(_, _)
UpsertPoints(d, points) ==
    IF Len(points) = 0 THEN d
    ELSE UpsertPoints(Upsert(d, points[1]), Tail(points))

\* a call batchLogMemory makes: the embedding of entry i, or the upsert
EmbedOf(i, ok) == [call |-> "embed", entry |-> i, ok |-> ok]
UpsertOf(points) == [call |-> "upsert", entry |-> Len(points), ok |-> TRUE]

\* the point batchLogMemory makes of entry i
BatchPoint(d, projectName, entries, i, t) ==
    [id |-> IF entries[i].topLevelId # NoId THEN entries[i].topLevelId
            ELSE Len(d.points) + i,
     payload |-> [type |-> entries[i].memoryType, content |-> entries[i].content,
                  timestamp |-> t, project |-> projectName]]

\* the entries whose kind MEMORY_TYPES does not list
InvalidEntries(entries) ==
    {i \in 1..Len(entries) :
        \A k \in 1..Len(MEMORY_TYPES) : MEMORY_TYPES[k] # entries[i].memoryType}

\* a batchLogMemory that upserts each point as soon as its embedding is there
batchLogMemory_UpsertsEach(d, projectName, entries, rejected, t) ==
    LET d1 == initMemoryBank(d, projectName, t)
        n == Len(entries)
        stop == IF InvalidEntries(entries) \cup (rejected \cap (1..n)) = {} THEN n + 1
                ELSE CHOOSE i \in InvalidEntries(entries) \cup (rejected \cap (1..n)) :
                        \A j \in InvalidEntries(entries) \cup (rejected \cap (1..n)) : i <= j
        points == [i \in 1..(stop - 1) |-> BatchPoint(d1, projectName, entries, i, t)]
    IN  IF n = 0
        THEN [db |-> d, ids |-> << >>, threw |-> TRUE, log |-> << >>, points |-> << >>]
        ELSE [db |-> UpsertPoints(d1, points),
              ids |-> [i \in 1..Len(points) |-> points[i].id],
              threw |-> stop <= n,
              log |-> [k \in 1..(2 * Len(points)) |->
                          IF k % 2 = 1 THEN EmbedOf((k + 1) \div 2, TRUE)
                          ELSE UpsertOf(<<points[k \div 2]>>)],
              points |-> points]

\* rejected: the entries whose embedding is rejected. The kinds are checked
\* as the embeddings are started, entry by entry; the points are built and
\* upserted once Promise.all has every vector.
batchLogMemory(d, projectName, entries, rejected, t) ==
    LET d1 == initMemoryBank(d, projectName, t)
        n == Len(entries)
        invalid == InvalidEntries(entries)
        firstInvalid == CHOOSE i \in invalid : \A j \in invalid : i <= j
        points == [i \in 1..n |-> BatchPoint(d1, projectName, entries, i, t)]
    IN  IF n = 0
        THEN [db |-> d, ids |-> << >>, threw |-> TRUE, log |-> << >>, points |-> << >>]
        ELSE IF invalid # {}
        THEN [db |-> d1, ids |-> << >>, threw |-> TRUE,
              log |-> [i \in 1..(firstInvalid - 1) |-> EmbedOf(i, i \notin rejected)],
              points |-> << >>]
        ELSE IF rejected \cap (1..n) # {}
        THEN [db |-> d1, ids |-> << >>, threw |-> TRUE,
              log |-> [i \in 1..n |-> EmbedOf(i, i \notin rejected)],
              points |-> << >>]
        ELSE [db |-> UpsertPoints(d1, points),
              ids |-> [i \in 1..n |-> points[i].id],
              threw |-> FALSE,
              log |-> [i \in 1..n |-> EmbedOf(i, TRUE)] \o <<UpsertOf(points)>>,
              points |-> points]

\* one step of batchUpdateStructuredContext: what update i read and wrote
UpdateStep(update, o) ==
    [contextType |-> update.contextType, changes |-> update.patchContent,
     previous |-> o.previous, new |-> o.new]

\* the for loop of batchUpdateStructuredContext from update i on: an update of
\* an unknown kind throws when the loop reaches it, after the updates before it
RECURSIVE batchUpdateFrom(_, _, _, _, _, _, _, _)
batchUpdateFrom(d, caches, projectName, updates, i, results, steps, t) ==
    IF i > Len(updates)
    THEN {[db |-> d, caches |-> caches, results |-> results, steps |-> steps, threw |-> FALSE]}
    ELSE IF updates[i].contextType \notin STRUCTURED_CONTEXT_TYPES
    THEN {[db |-> d, caches |-> caches, results |-> results, steps |-> steps, threw |-> TRUE]}
    ELSE UNION {
        IF o.threw
        THEN {[db |-> o.db, caches |-> o.caches, results |-> results, steps |-> steps,
               threw |-> TRUE]}
        ELSE batchUpdateFrom(o.db, o.caches, projectName, updates, i + 1,
                             Append(results, o.id),
                             Append(steps, UpdateStep(updates[i], o)), t)
        : o \in updateStructuredContext(d, caches, projectName, updates[i].contextType,
                                        updates[i].patchContent, t)}

batchUpdateStructuredContext(d, caches, projectName, updates, t) ==
    IF Len(updates) = 0
    THEN {[db |-> d, caches |-> caches, results |-> << >>, steps |-> << >>, threw |-> TRUE]}
    ELSE batchUpdateFrom(d, caches, projectName, updates, 1, << >>, << >>, t)

\* the entries getContextHistory makes of its hits (a hit whose content does
\* not parse is dropped)
HistoryOfHits(results) ==
    LET parsed == SelectSeq(results, LAMBDA hit : JSONparses(hit.payload.content))
    IN  [i \in 1..Len(parsed) |->
            LET historyData == JSONparse(parsed[i].payload.content)
            IN  [id |-> parsed[i].id,
                 contextType |-> historyData.contextType,
                 previousVersion |-> historyData.previousVersion,
                 newVersion |-> historyData.newVersion,
                 changes |-> historyData.changes,
                 timestamp |-> historyData.timestamp,
                 pointId |-> historyData.pointId]]

getContextHistory(d, projectName, contextType, limit) ==
    IF contextType \notin STRUCTURED_CONTEXT_TYPES \/ projectName \notin d.collections
    THEN {[value |-> << >>, threw |-> TRUE]}
    ELSE {[value |-> HistoryOfHits(results), threw |-> FALSE] :
            results \in Search(d, projectName,
                               {<<"project", projectName>>, <<"type", "contextHistory">>,
                                <<"contextType", contextType>>}, limit)}

\* hit.payload of a search hit, as getSystemPatterns formats it
PatternsOfHits(results) ==
    [i \in 1..Len(results) |->
        [id |-> results[i].id, pattern |-> results[i].payload.content,
         timestamp |-> results[i].payload.timestamp]]

getSystemPatterns(d, caches, projectName, limit, t) ==
    LET cacheKey == cacheKeys_systemPatterns(projectName)
        cached == getCached(caches.pattern, cacheKey, t)
    IN  IF LRUHas(caches.pattern, cacheKey, t).ret
        THEN {[caches |-> [caches EXCEPT !.pattern = cached.cache],
               value |-> Slice(cached.ret, limit), hit |-> TRUE, threw |-> FALSE]}
        ELSE IF projectName \notin d.collections
        THEN {[caches |-> [caches EXCEPT !.pattern = cached.cache],
               value |-> << >>, hit |-> FALSE, threw |-> TRUE]}
        ELSE {[caches |-> [caches EXCEPT !.pattern =
                   setCached(cached.cache, PatternCacheSize, cacheKey,
                             PatternsOfHits(results), DefaultTtl, t)],
               value |-> PatternsOfHits(results), hit |-> FALSE, threw |-> FALSE] :
                 results \in Search(d, projectName,
                                    {<<"project", projectName>>,
                                     <<"type", SYSTEM_PATTERN_TYPE>>}, limit)}

\* the hits of queryMemory, formatted (the score is the store's and not kept)
QueryResultsOfHits(results) ==
    [i \in 1..Len(results) |->
        [id |-> results[i].id, content |-> results[i].payload.content,
         type |-> results[i].payload.type, timestamp |-> results[i].payload.timestamp]]

queryMemory(d, caches, projectName, queryText, memoryType, topK, t) ==
    LET cacheKey == cacheKeys_query(projectName, queryText, memoryType, topK)
        cached == getCached(caches.query, cacheKey, t)
        mustFilter == {<<"project", projectName>>} \cup
                      (IF memoryType # Null THEN {<<"type", memoryType>>} ELSE {})
    IN  IF LRUHas(caches.query, cacheKey, t).ret
        THEN {[caches |-> [caches EXCEPT !.query = cached.cache],
               value |-> cached.ret, hit |-> TRUE, threw |-> FALSE]}
        ELSE IF projectName \notin d.collections
        THEN {[caches |-> [caches EXCEPT !.query = cached.cache],
               value |-> << >>, hit |-> FALSE, threw |-> TRUE]}
        ELSE {[caches |-> [caches EXCEPT !.query =
                   setCached(cached.cache, QueryCacheSize, cacheKey,
                             QueryResultsOfHits(results), DefaultTtl, t)],
               value |-> QueryResultsOfHits(results), hit |-> FALSE, threw |-> FALSE] :
                 results \in Search(d, projectName, mustFilter, topK)}

----------------------------------------------------------------------------
(* providerBase.ts: categorizeGeminiError and withRetry.                    *)
(* An error message is a sequence of words, each as it is written; a        *)
(* pattern of several words is a run of words.                              *)

\* String.prototype.toLowerCase, word by word
LowerWord(w) ==
    CASE w = "API" -> "api"
      [] w = "Too" -> "too"
      [] w = "Quota" -> "quota"
      [] w = "Network" -> "network"
      [] w = "Rate" -> "rate"
      [] OTHER -> w

toLowerCase(str) == [i \in 1..Len(str) |-> LowerWord(str[i])]

\* the first test that matches decides
categorizeGeminiError(message) ==
    LET errorMessage == toLowerCase(message)
    IN  IF \/ Includes(errorMessage, <<"api", "key">>)
           \/ Includes(errorMessage, <<"authentication">>)
           \/ Includes(errorMessage, <<"unauthorized">>)
        THEN "AUTHENTICATION_ERROR"
        ELSE IF \/ Includes(errorMessage, <<"quota">>)
                \/ Includes(errorMessage, <<"limit">>)
                \/ Includes(errorMessage, <<"exceeded">>)
        THEN "QUOTA_ERROR"
        ELSE IF \/ Includes(errorMessage, <<"timeout">>)
                \/ Includes(errorMessage, <<"network">>)
                \/ Includes(errorMessage, <<"fetch">>)
        THEN "NETWORK_ERROR"
        ELSE IF \/ Includes(errorMessage, <<"rate", "limit">>)
                \/ Includes(errorMessage, <<"too", "many", "requests">>)
        THEN "RATE_LIMIT"
        ELSE "UNKNOWN_ERROR"

\* RETRY_CONFIG
RetryMaxRetries == 3
RetryBaseDelay == 1000
RetryMaxDelay == 5000
RetryBackoffFactor == 2

RETRY_CONFIG ==
    [maxRetries |-> RetryMaxRetries, baseDelay |-> RetryBaseDelay,
     maxDelay |-> RetryMaxDelay, backoffFactor |-> RetryBackoffFactor]

\* Math.pow on naturals, Math.min
RECURSIVE Pow(_, _)
Pow(b, e) == IF e = 0 THEN 1 ELSE b * Pow(b, e - 1)

Min(a, b) == IF a < b THEN a ELSE b

NoError == [message |-> << >>, at |-> 0]
NoResult == << >>

\* what one invocation of the wrapped operation does
Succeeds(value) == [ok |-> TRUE, value |-> value, message |-> << >>]
Fails(message) == [ok |-> FALSE, value |-> NoResult, message |-> message]

\* a withRetry that retries whatever the category of the error
RECURSIVE withRetryFrom_RetriesAll(_, _, _, _)
withRetryFrom_RetriesAll(operation, retryConfig, attempt, delays) ==
    LET r == operation[attempt + 1]
        lastError == [message |-> r.message, at |-> attempt + 1]
    IN  IF r.ok
        THEN [calls |-> attempt + 1, delays |-> delays, threw |-> FALSE,
              value |-> r.value, error |-> NoError]
        ELSE IF attempt = retryConfig.maxRetries
        THEN [calls |-> attempt + 1, delays |-> delays, threw |-> TRUE,
              value |-> NoResult, error |-> lastError]
        ELSE withRetryFrom_RetriesAll(operation, retryConfig, attempt + 1,
                 Append(delays, Min(retryConfig.baseDelay
                                        * Pow(retryConfig.backoffFactor, attempt),
                                    retryConfig.maxDelay)))

\* the loop of withRetry from `attempt` on, `delays` having been waited so far;
\* operation[k] is what the k-th invocation of the operation does. The result
\* counts the invocations and lists the delays waited.
RECURSIVE withRetryFrom(_, _, _, _)
withRetryFrom(operation, retryConfig, attempt, delays) ==
    LET r == operation[attempt + 1]
        lastError == [message |-> r.message, at |-> attempt + 1]
        errorCategory == categorizeGeminiError(lastError.message)
    IN  IF r.ok
        THEN [calls |-> attempt + 1, delays |-> delays, threw |-> FALSE,
              value |-> r.value, error |-> NoError]
        ELSE IF \/ errorCategory \in {"AUTHENTICATION_ERROR", "QUOTA_ERROR"}
                \/ attempt = retryConfig.maxRetries
        THEN [calls |-> attempt + 1, delays |-> delays, threw |-> TRUE,
              value |-> NoResult, error |-> lastError]
        ELSE withRetryFrom(operation, retryConfig, attempt + 1,
                 Append(delays, Min(retryConfig.baseDelay
                                        * Pow(retryConfig.backoffFactor, attempt),
                                    retryConfig.maxDelay)))

\* a withRetry that throws the first error once the budget is spent
withRetry_FirstError(operation, retryConfig) ==
    LET o == withRetryFrom(operation, retryConfig, 0, << >>)
    IN  IF o.threw
        THEN [o EXCEPT !.error = [message |-> operation[1].message, at |-> 1]]
        ELSE o

\* a withRetry whose backoff is not capped
withRetry_Uncapped(operation, retryConfig) ==
    withRetryFrom(operation, [retryConfig EXCEPT !.maxDelay = 1000000], 0, << >>)

withRetry(operation, retryConfig) == withRetryFrom(operation, retryConfig, 0, << >>)

----------------------------------------------------------------------------
(* providerBase.ts: preprocessText, chunkText, summarizeForEmbedding.       *)
(* A text is a sequence of characters; JS indices start at 0, so the JS     *)
(* character text[i] is text[i + 1] here.                                   *)

\* constants.ts, scaled down: 5000, 1500, 200 and 10 in the source
MAX_TEXT_LENGTH_FOR_EMBEDDING == 4
MAX_CHUNK_SIZE == 3
CHUNK_OVERLAP == 1
MAX_CHUNKS_PER_TEXT == 2
\* "within the last 200 characters", scaled down
BreakSearchWindow == 2

Whitespace == {" "}
SentenceEnds == {".", "!", "?"}

Max(a, b) == IF a > b THEN a ELSE b

\* text[i] of JS
CharAt(text, i) == text[i + 1]

\* String.prototype.slice(a, b) for 0 <= a
JsSlice(text, a, b) == SubSeq(text, a + 1, Min(b, Len(text)))

\* String.prototype.trim
RECURSIVE Trim(_)
Trim(text) ==
    IF Len(text) = 0 THEN text
    ELSE IF text[1] \in Whitespace THEN Trim(Tail(text))
    ELSE IF text[Len(text)] \in Whitespace THEN Trim(SubSeq(text, 1, Len(text) - 1))
    ELSE text

\* the two backward searches of chunkText for a place to break before `end`
BreakPoint(text, start, end) ==
    LET searchStart == Max(start, end - BreakSearchWindow)
        sentence == {i \in searchStart..(end - 1) :
                        /\ CharAt(text, i) \in SentenceEnds
                        /\ (i + 1 >= Len(text) \/ CharAt(text, i + 1) \in Whitespace)}
        afterSentence == IF sentence = {} THEN end
                         ELSE (CHOOSE i \in sentence : \A j \in sentence : j <= i) + 1
        spaces == {i \in searchStart..(end - 1) : CharAt(text, i) \in Whitespace}
    IN  IF afterSentence # end THEN afterSentence
        ELSE IF spaces = {} THEN end
        ELSE CHOOSE i \in spaces : \A j \in spaces : j <= i

\* a loop that goes on to the end of the text, however many chunks it has
RECURSIVE chunkLoop_AllChunks(_, _, _, _)
chunkLoop_AllChunks(text, start, chunks, consumed) ==
    IF ~(start < Len(text))
    THEN [chunks |-> chunks, start |-> start, consumed |-> consumed]
    ELSE LET end0 == start + MAX_CHUNK_SIZE
             end == IF end0 < Len(text) THEN BreakPoint(text, start, end0) ELSE end0
             chunk == Trim(JsSlice(text, start, end))
         IN  chunkLoop_AllChunks(text, Max(start + 1, end - CHUNK_OVERLAP),
                                 IF Len(chunk) > 0 THEN Append(chunks, chunk) ELSE chunks,
                                 Max(consumed, Min(end, Len(text))))

\* the while loop of chunkText: the chunks made, where the loop stopped, and
\* how far into the text the slices taken reach
RECURSIVE chunkLoop(_, _, _, _)
chunkLoop(text, start, chunks, consumed) ==
    IF ~(start < Len(text) /\ Len(chunks) < MAX_CHUNKS_PER_TEXT)
    THEN [chunks |-> chunks, start |-> start, consumed |-> consumed]
    ELSE LET end0 == start + MAX_CHUNK_SIZE
             end == IF end0 < Len(text) THEN BreakPoint(text, start, end0) ELSE end0
             chunk == Trim(JsSlice(text, start, end))
         IN  chunkLoop(text, Max(start + 1, end - CHUNK_OVERLAP),
                       IF Len(chunk) > 0 THEN Append(chunks, chunk) ELSE chunks,
                       Max(consumed, Min(end, Len(text))))

chunkText(text) == chunkLoop(text, 0, << >>, 0).chunks

\* the iterations of the while loop of chunkText: the span [start, end) of
\* the text each one slices (end as slice clamps it to the text) and whether
\* it pushed the trimmed slice as a chunk; n counts the chunks pushed
RECURSIVE chunkSpans(_, _, _, _)
chunkSpans(text, start, n, spans) ==
    IF ~(start < Len(text) /\ n < MAX_CHUNKS_PER_TEXT)
    THEN spans
    ELSE LET end0 == start + MAX_CHUNK_SIZE
             end == IF end0 < Len(text) THEN BreakPoint(text, start, end0) ELSE end0
             chunk == Trim(JsSlice(text, start, end))
         IN  chunkSpans(text, Max(start + 1, end - CHUNK_OVERLAP),
                        IF Len(chunk) > 0 THEN n + 1 ELSE n,
                        Append(spans, [start |-> start, end |-> Min(end, Len(text)),
                                       pushed |-> Len(chunk) > 0]))

\* a call of chunkText and preprocessText: the text, and what they returned
ChunkCall(text, called, chunks, spans, processed) ==
    [text |-> text, called |-> called, chunks |-> chunks, spans |-> spans,
     processed |-> processed]

\* the environment: which API keys are set
Envs == [openrouterKey : BOOLEAN, geminiKey : BOOLEAN]

\* what a completion endpoint answers with
Summary == <<"x", ".">>
\* the errors a remote call fails with
CallErrors == {<<"Network", "timeout">>, <<"Quota", "exceeded">>}

\* one remote call, as the log keeps it: the text it was made for (its index in
\* the batch), the endpoint, what was sent, and how it ended
RemoteCall(i, endpoint, input, ok, message) ==
    [i |-> i, endpoint |-> endpoint, input |-> input, ok |-> ok, message |-> message]

\* callGeminiAPI: withRetry around one generateContent call per attempt; with
\* no key the operation throws before it calls anything
callGeminiAPI(text, env, i) ==
    IF ~env.geminiKey
    THEN LET operation == [k \in 1..(RETRY_CONFIG.maxRetries + 1) |->
                              Fails(<<"GEMINI_API_KEY", "not", "set">>)]
         IN  {[result |-> withRetry(operation, RETRY_CONFIG), log |-> << >>]}
    ELSE {LET r == withRetry(operation, RETRY_CONFIG)
          IN  [result |-> r,
               log |-> [k \in 1..r.calls |->
                           RemoteCall(i, "gemini.generateContent", text,
                                      operation[k].ok, operation[k].message)]] :
            operation \in [1..(RETRY_CONFIG.maxRetries + 1) ->
                              {Succeeds(Summary)} \cup {Fails(m) : m \in CallErrors}]}

\* summarizeForEmbedding: OpenRouter if its key is set (one post, a failure or
\* an empty answer goes on to Gemini), then Gemini, then the text as it is
summarizeForEmbedding(text, env, i) ==
    LET viaGemini ==
            {[value |-> IF g.result.threw THEN text ELSE g.result.value, log |-> g.log] :
                g \in callGeminiAPI(text, env, i)}
        post(ok, message) == RemoteCall(i, "openrouter.chat", text, ok, message)
    IN  IF env.openrouterKey
        THEN {[value |-> Summary, log |-> <<post(TRUE, << >>)>>]}
             \cup {[value |-> v.value, log |-> <<post(TRUE, << >>)>> \o v.log] : v \in viaGemini}
             \cup {[value |-> v.value, log |-> <<post(FALSE, m)>> \o v.log] :
                      v \in viaGemini, m \in CallErrors}
        ELSE viaGemini

\* preprocessText: a chunk array, or one string (the text, or what
\* summarizeForEmbedding made of it), with the remote calls made on the way
preprocessText(text, env, i) ==
    IF Len(text) > MAX_TEXT_LENGTH_FOR_EMBEDDING
    THEN LET chunks == chunkText(text)
         IN  IF Len(chunks) > 0 /\ Len(chunks) <= MAX_CHUNKS_PER_TEXT
             THEN {[isArray |-> TRUE, parts |-> chunks, log |-> << >>]}
             ELSE {[isArray |-> FALSE, parts |-> <<v.value>>, log |-> v.log] :
                      v \in summarizeForEmbedding(text, env, i)}
    ELSE {[isArray |-> FALSE, parts |-> <<text>>, log |-> << >>]}

----------------------------------------------------------------------------
(* contextTools.ts summarizeText: the configured summarizer, then OpenRouter, *)
(* then the text as it is.                                                    *)

\* config.SUMMARIZER_PROVIDER.toLowerCase(): the three it knows, and another
SummarizerProviders == {"openrouter", "gemini", "ollama", "claude"}

\* the helper the switch calls for a provider (default: callOpenRouterAPI)
SummarizerOf(provider) ==
    IF provider \in {"openrouter", "gemini", "ollama"} THEN provider ELSE "openrouter"

\* one call of callOpenRouterAPI, callGeminiAPI or callOllamaAPI: it returns
\* the provider's summary, or throws (no key, a failed request, an empty
\* answer)
SummarizerCall(helper, env) ==
    LET keyed == IF helper = "openrouter" THEN env.openrouterKey
                 ELSE IF helper = "gemini" THEN env.geminiKey
                 ELSE TRUE
    IN  (IF keyed THEN {[helper |-> helper, ok |-> TRUE, message |-> << >>]} ELSE {})
        \cup {[helper |-> helper, ok |-> FALSE, message |-> m] :
                 m \in IF keyed THEN CallErrors \cup {<<"Empty", "response">>}
                       ELSE {<<"KEY", "not", "set">>}}

SummarizeOutcome(value, threw, log) == [value |-> value, threw |-> threw, log |-> log]

\* a summarizeText whose fallback to OpenRouter is not inside a try
summarizeText_FallbackThrows(provider, text, env) ==
    IF Len(text) = 0
    THEN {SummarizeOutcome(<< >>, FALSE, << >>)}
    ELSE UNION {
        IF first.ok
        THEN {SummarizeOutcome(Summary, FALSE, <<first>>)}
        ELSE IF provider # "openrouter"
        THEN {SummarizeOutcome(IF second.ok THEN Summary ELSE << >>, ~second.ok,
                               <<first, second>>) :
                 second \in SummarizerCall("openrouter", env)}
        ELSE {SummarizeOutcome(text, FALSE, <<first>>)}
        : first \in SummarizerCall(SummarizerOf(provider), env)}

\* summarizeText: "" for no text; else the helper of the provider, in a try
\* whose catch calls OpenRouter, in a try of its own, unless OpenRouter was
\* the provider, and returns the text when that fails too
summarizeText(provider, text, env) ==
    IF Len(text) = 0
    THEN {SummarizeOutcome(<< >>, FALSE, << >>)}
    ELSE UNION {
        IF first.ok
        THEN {SummarizeOutcome(Summary, FALSE, <<first>>)}
        ELSE IF provider # "openrouter"
        THEN {SummarizeOutcome(IF second.ok THEN Summary ELSE text, FALSE,
                               <<first, second>>) :
                 second \in SummarizerCall("openrouter", env)}
        ELSE {SummarizeOutcome(text, FALSE, <<first>>)}
        : first \in SummarizerCall(SummarizerOf(provider), env)}

\* a call of summarizeText: its configuration and input, and its outcome
SummarizeCall(provider, env, text, called, o) ==
    [provider |-> provider, env |-> env, text |-> text, called |-> called,
     value |-> o.value, threw |-> o.threw, log |-> o.log]

----------------------------------------------------------------------------
(* gemini.ts, openrouter.ts, ollama.ts: embedTexts of the remote providers. *)
(* A vector is kept as who made it and of what: the provider of the inputs  *)
(* it was sent, or FastEmbed of a whole text.                               *)

Providers == {"Gemini", "OpenRouter", "Ollama"}
FastEmbed == "FastEmbed"

\* Ollama cuts what it sends at 8000 characters (scaled down)
OllamaPromptLimit == 5

\* what embedTexts sends to the provider's embedding endpoint for one string
ProviderInput(provider, part) ==
    IF provider = "Ollama" /\ Len(part) > OllamaPromptLimit
    THEN SubSeq(part, 1, OllamaPromptLimit)
    ELSE part

ProviderVector(provider, input) == [by |-> provider, of |-> <<input>>]

\* the vector FastEmbedProvider makes for a text: random numbers
FastEmbedVector(text) == [by |-> FastEmbed, of |-> <<text>>]

\* FastEmbedProvider.embedTexts([text])[0]: it preprocesses the text as the
\* remote providers do (so it may call the summarizers), then draws its vector
FastEmbedProvider_embedTexts(text, env, i) ==
    {[vector |-> FastEmbedVector(text), log |-> pre.log] :
        pre \in preprocessText(text, env, i)}

RECURSIVE ConcatOf(_)
ConcatOf(embeddings) ==
    IF Len(embeddings) = 0 THEN << >>
    ELSE embeddings[1].of \o ConcatOf(Tail(embeddings))

\* averageEmbeddings: none gives [], one gives itself, more give their mean
averageEmbeddings(embeddings) ==
    IF Len(embeddings) = 0 THEN [by |-> "nobody", of |-> << >>]
    ELSE IF Len(embeddings) = 1 THEN embeddings[1]
    ELSE [by |-> embeddings[1].by, of |-> ConcatOf(embeddings)]

\* the loop body of embedTexts that, when a chunk fails, averages the chunk
\* vectors it has with the fallback vector
embedOne_KeepsPartial(provider, text, env, i) ==
    UNION {
        LET inputs == [k \in 1..Len(pre.parts) |-> ProviderInput(provider, pre.parts[k])]
            okCall(k) == RemoteCall(i, "embed", inputs[k], TRUE, << >>)
            vectors == [k \in 1..Len(inputs) |-> ProviderVector(provider, inputs[k])]
        IN  {[vector |-> IF pre.isArray THEN averageEmbeddings(vectors) ELSE vectors[1],
              log |-> pre.log \o [k \in 1..Len(inputs) |-> okCall(k)],
              processed |-> [isArray |-> pre.isArray, parts |-> pre.parts]]}
            \cup
            {[vector |-> averageEmbeddings(SubSeq(vectors, 1, f - 1) \o <<fb.vector>>),
              log |-> pre.log \o [k \in 1..(f - 1) |-> okCall(k)]
                              \o <<RemoteCall(i, "embed", inputs[f], FALSE, m)>> \o fb.log,
              processed |-> [isArray |-> pre.isArray, parts |-> pre.parts]] :
                f \in 1..Len(inputs), m \in CallErrors,
                fb \in FastEmbedProvider_embedTexts(text, env, i)}
        : pre \in preprocessText(text, env, i)}

\* the loop body of embedTexts for the text of index i: preprocessText, one
\* call of the embedding endpoint per string, in order, up to the first that
\* fails; a failure goes to the catch, which embeds the whole text with
\* FastEmbed
embedOne(provider, text, env, i) ==
    UNION {
        LET inputs == [k \in 1..Len(pre.parts) |-> ProviderInput(provider, pre.parts[k])]
            okCall(k) == RemoteCall(i, "embed", inputs[k], TRUE, << >>)
            vectors == [k \in 1..Len(inputs) |-> ProviderVector(provider, inputs[k])]
        IN  {[vector |-> IF pre.isArray THEN averageEmbeddings(vectors) ELSE vectors[1],
              log |-> pre.log \o [k \in 1..Len(inputs) |-> okCall(k)],
              processed |-> [isArray |-> pre.isArray, parts |-> pre.parts]]}
            \cup
            {[vector |-> fb.vector,
              log |-> pre.log \o [k \in 1..(f - 1) |-> okCall(k)]
                              \o <<RemoteCall(i, "embed", inputs[f], FALSE, m)>> \o fb.log,
              processed |-> [isArray |-> pre.isArray, parts |-> pre.parts]] :
                f \in 1..Len(inputs), m \in CallErrors,
                fb \in FastEmbedProvider_embedTexts(text, env, i)}
        : pre \in preprocessText(text, env, i)}

\* embedTexts: the texts one after the other, one vector pushed for each
RECURSIVE embedTextsFrom(_, _, _, _)
embedTextsFrom(provider, texts, env, i) ==
    IF i > Len(texts)
    THEN {[vectors |-> << >>, log |-> << >>, processed |-> << >>]}
    ELSE {[vectors |-> <<one.vector>> \o rest.vectors,
           log |-> one.log \o rest.log,
           processed |-> <<one.processed>> \o rest.processed] :
            one \in embedOne(provider, texts[i], env, i),
            rest \in embedTextsFrom(provider, texts, env, i + 1)}

embedTexts(provider, texts, env) == embedTextsFrom(provider, texts, env, 1)

----------------------------------------------------------------------------
(* getCachedEmbeddings with a remote provider configured: the vectors of    *)
(* the texts it does not find cached are those provider.embedTexts returns,  *)
(* the provider's or, for a text whose call failed, FastEmbed's.             *)

\* the second forEach over the vectors newEmbeddings of the uncached texts
RECURSIVE embedStoreNew(_, _, _, _, _, _, _)
embedStoreNew(cache, texts, uncachedIndices, newEmbeddings, i, results, t) ==
    IF i > Len(uncachedIndices)
    THEN [cache |-> cache, results |-> results]
    ELSE embedStoreNew(setCached(cache, EmbeddingCacheSize,
                                 cacheKeys_embedding(texts[uncachedIndices[i]]),
                                 newEmbeddings[i], DefaultTtl, t),
                       texts, uncachedIndices, newEmbeddings, i + 1,
                       [results EXCEPT ![uncachedIndices[i]] = newEmbeddings[i]], t)

\* getCachedEmbeddings: one outcome per outcome of provider.embedTexts
getCachedEmbeddingsBy(provider, env, cache, texts, t) ==
    LET looked == embedLookup(cache, texts, 1,
                              [i \in 1..Len(texts) |-> averageEmbeddings(<< >>)], << >>, t)
        uncachedTexts == [i \in 1..Len(looked.uncachedIndices) |->
                             texts[looked.uncachedIndices[i]]]
    IN  IF Len(uncachedTexts) = 0
        THEN {[cache |-> looked.cache, results |-> looked.results]}
        ELSE {embedStoreNew(looked.cache, texts, looked.uncachedIndices, newEmbeddings.vectors,
                            1, looked.results, t) :
                 newEmbeddings \in embedTexts(provider, uncachedTexts, env)}

----------------------------------------------------------------------------
(* The LRUCache under test, driven by arbitrary calls *)

\* history bookkeeping: k was just the subject of a get or set call
Touch(r, k, op) == Append(SelectSeq(r, LAMBDA e : e.key # k), [key |-> k, op |-> op])

\* value: what get/getCached returned; present: what has returned; size: what
\* size returned (Null, FALSE, 0 for the calls that return none of them)
Call(op, k, ttl, value, present, size, before, after) ==
    [op |-> op, key |-> k, ttl |-> ttl, value |-> value, present |-> present,
     size |-> size, evicted |-> MapKeys(before) \ MapKeys(after)]

NoKey == << >>

LruInit ==
    /\ now = 0
    /\ lru = << >>
    /\ lruRet = Call("new", NoKey, 0, Null, FALSE, 0, << >>, << >>)
    /\ recency = << >>

LruGetCall(k) ==
    LET r == LRUGet(lru, k)
    IN  /\ lru' = r.cache
        /\ lruRet' = Call("get", k, 0, r.ret, FALSE, 0, lru, r.cache)
        /\ recency' = Touch(recency, k, "get")
        /\ UNCHANGED <<now, storeVars, auxVars>>

LruSetCall(k, v, ttl) ==
    LET c == LRUSet(lru, MaxSize, k, v, ttl, now)
    IN  /\ lru' = c
        /\ lruRet' = Call("set", k, ttl, Null, FALSE, 0, lru, c)
        /\ recency' = Touch(recency, k, "set")
        /\ UNCHANGED <<now, storeVars, auxVars>>

LruHasCall(k) ==
    LET r == LRUHas(lru, k, now)
    IN  /\ lru' = r.cache
        /\ lruRet' = Call("has", k, 0, Null, r.ret, 0, lru, r.cache)
        /\ UNCHANGED <<now, recency, storeVars, auxVars>>

LruGetCachedCall(k) ==
    LET r == getCached(lru, k, now)
    IN  /\ lru' = r.cache
        /\ lruRet' = Call("getCached", k, 0, r.ret, FALSE, 0, lru, r.cache)
        /\ recency' = IF LRUHas(lru, k, now).ret THEN Touch(recency, k, "get") ELSE recency
        /\ UNCHANGED <<now, storeVars, auxVars>>

LruSizeCall ==
    LET r == LRUSize(lru, now)
    IN  /\ lru' = r.cache
        /\ lruRet' = Call("size", NoKey, 0, Null, FALSE, r.ret, lru, r.cache)
        /\ UNCHANGED <<now, recency, storeVars, auxVars>>

LruClearCall ==
    /\ lru' = LRUClear(lru)
    /\ lruRet' = Call("clear", NoKey, 0, Null, FALSE, 0, lru, << >>)
    /\ UNCHANGED <<now, recency, storeVars, auxVars>>

\* the clock advances between calls
LruTick ==
    /\ now < MaxTime
    /\ now' = now + 1
    /\ UNCHANGED <<lru, lruRet, recency, storeVars, auxVars>>

LruNext ==
    \/ \E k \in LruKeys : LruGetCall(k)
    \/ \E k \in LruKeys, v \in LruValues, ttl \in 0..MaxTtl : LruSetCall(k, v, ttl)
    \/ \E k \in LruKeys : LruHasCall(k)
    \/ \E k \in LruKeys : LruGetCachedCall(k)
    \/ LruSizeCall
    \/ LruClearCall
    \/ LruTick


----------------------------------------------------------------------------
(* The memory store, driven by sequential calls of its tools: every call   *)
(* runs to its end before the next starts.                                  *)

\* an optional argument: << >> when it is not given, <<v>> when it is v
None == << >>
Some(v) == <<v>>

NoKind == "none"

\* embedded: the texts logMemory asked an embedding for (kept for logMemory only)
Ret(op, projectName, kind, limit, o) ==
    [op |-> op, project |-> projectName, kind |-> kind, limit |-> limit,
     threw |-> o.threw, hit |-> o.hit, value |-> o.value, id |-> o.id,
     embedded |-> IF "embedded" \in DOMAIN o THEN o.embedded ELSE << >>]

StoreInit ==
    /\ db = [collections |-> {}, points |-> << >>]
    /\ queryCache = << >>
    /\ contextCache = << >>
    /\ patternCache = << >>
    /\ ret = [op |-> "start", project |-> "", kind |-> NoKind, limit |-> 0,
              threw |-> FALSE, hit |-> FALSE, value |-> << >>, id |-> NoId,
              embedded |-> << >>]

TheCaches == Caches(queryCache, contextCache, patternCache)

SetCaches(caches) ==
    /\ queryCache' = caches.query
    /\ contextCache' = caches.context
    /\ patternCache' = caches.pattern

StructuredCount(projectName) ==
    Cardinality({i \in 1..Len(db.points) :
        /\ db.points[i].payload.project = projectName
        /\ "structured" \in DOMAIN db.points[i].payload})

PlainCount(projectName) ==
    Cardinality({i \in 1..Len(db.points) :
        /\ db.points[i].payload.project = projectName
        /\ db.points[i].payload.content.text = "plain"
        /\ db.points[i].payload.content.val[1] # "Initial placeholder for"})

\* contextTools.ts updateProductContext / updateActiveContext: a patch goes to
\* updateStructuredContext, else a content to logStructuredMemory, else it throws
updateContext(contextType, projectName, content, patchContent) ==
    IF Len(patchContent) > 0
    THEN {[db |-> o.db, caches |-> o.caches,
           ret |-> Ret("updateStructuredContext", projectName, contextType, 0,
                       [threw |-> o.threw, hit |-> FALSE,
                        value |-> [previous |-> o.previous, new |-> o.new,
                                   changes |-> patchContent[1]],
                        id |-> o.id])] :
            o \in updateStructuredContext(db, TheCaches, projectName, contextType,
                                          patchContent[1], now)}
    ELSE IF Len(content) > 0
    THEN LET o == logStructuredMemory(db, TheCaches, projectName, contextType,
                                      content[1], NoId, now)
         IN  {[db |-> o.db, caches |-> o.caches,
               ret |-> Ret("logStructuredMemory", projectName, contextType, 0,
                           [threw |-> o.threw, hit |-> FALSE, value |-> content[1],
                            id |-> o.id])]}
    ELSE {[db |-> db, caches |-> TheCaches,
           ret |-> Ret("updateContext", projectName, contextType, 0,
                       [threw |-> TRUE, hit |-> FALSE, value |-> << >>, id |-> NoId])]}

UpdateProductContext(projectName, content, patchContent) ==
    /\ Len(content) + Len(patchContent) > 0 => StructuredCount(projectName) < MaxEntries
    /\ \E o \in updateContext("productContext", projectName, content, patchContent) :
          /\ db' = o.db
          /\ SetCaches(o.caches)
          /\ ret' = o.ret
    /\ UNCHANGED <<now, lru, lruRet, recency, auxVars>>

UpdateActiveContext(projectName, content, patchContent) ==
    /\ Len(content) + Len(patchContent) > 0 => StructuredCount(projectName) < MaxEntries
    /\ \E o \in updateContext("activeContext", projectName, content, patchContent) :
          /\ db' = o.db
          /\ SetCaches(o.caches)
          /\ ret' = o.ret
    /\ UNCHANGED <<now, lru, lruRet, recency, auxVars>>

\* contextTools.ts getProductContext
GetProductContext(projectName) ==
    /\ \E o \in getStructuredContext(db, TheCaches, projectName, "productContext", now) :
          /\ SetCaches(o.caches)
          /\ ret' = Ret("getStructuredContext", projectName, "productContext", 0,
                        [threw |-> o.threw, hit |-> o.hit, value |-> o.value, id |-> NoId])
    /\ UNCHANGED <<db, now, lru, lruRet, recency, auxVars>>

\* contextTools.ts getActiveContext
GetActiveContext(projectName) ==
    /\ \E o \in getStructuredContext(db, TheCaches, projectName, "activeContext", now) :
          /\ SetCaches(o.caches)
          /\ ret' = Ret("getStructuredContext", projectName, "activeContext", 0,
                        [threw |-> o.threw, hit |-> o.hit, value |-> o.value, id |-> NoId])
    /\ UNCHANGED <<db, now, lru, lruRet, recency, auxVars>>

GetContextHistory(projectName, contextType, limit) ==
    /\ \E o \in getContextHistory(db, projectName, contextType, limit) :
          ret' = Ret("getContextHistory", projectName, contextType, limit,
                     [threw |-> o.threw, hit |-> FALSE, value |-> o.value, id |-> NoId])
    /\ UNCHANGED <<db, queryCache, contextCache, patternCache, now, lru, lruRet, recency, auxVars>>

IsMemoryType(memoryType) == \E i \in 1..Len(MEMORY_TYPES) : MEMORY_TYPES[i] = memoryType

LogMemory(projectName, memoryType, content) ==
    /\ IsMemoryType(memoryType) => PlainCount(projectName) < MaxPlain
    /\ LET o == logMemory(db, TheCaches, projectName, memoryType, PlainText(content), NoId, now)
       IN  /\ db' = o.db
           /\ SetCaches(o.caches)
           /\ ret' = Ret("logMemory", projectName, memoryType, 0,
                         [threw |-> o.threw, hit |-> FALSE, value |-> content, id |-> o.id,
                          embedded |-> o.embedded])
    /\ UNCHANGED <<now, lru, lruRet, recency, auxVars>>

GetSystemPatterns(projectName, limit) ==
    /\ \E o \in getSystemPatterns(db, TheCaches, projectName, limit, now) :
          /\ SetCaches(o.caches)
          /\ ret' = Ret("getSystemPatterns", projectName, SYSTEM_PATTERN_TYPE, limit,
                        [threw |-> o.threw, hit |-> o.hit, value |-> o.value, id |-> NoId])
    /\ UNCHANGED <<db, now, lru, lruRet, recency, auxVars>>

\* the arguments of a queryMemory call
QueryArgs(projectName, queryText, memoryType, topK) ==
    [project |-> projectName, text |-> queryText, kind |-> memoryType, topK |-> topK]

\* queryOrigin after a call: a call that searched stored its result under its key
OriginAfter(origin, cacheKey, args, searched) ==
    [stored |-> IF searched
                THEN {e \in origin.stored : e.key # cacheKey}
                         \cup {[key |-> cacheKey, args |-> args]}
                ELSE origin.stored,
     last |-> args]

QueryMemory(projectName, queryText, memoryType, topK) ==
    /\ \E o \in queryMemory(db, TheCaches, projectName, queryText, memoryType, topK, now) :
          /\ SetCaches(o.caches)
          /\ ret' = Ret("queryMemory", projectName, memoryType, topK,
                        [threw |-> o.threw, hit |-> o.hit, value |-> o.value, id |-> NoId])
          /\ queryOrigin' =
                 OriginAfter(queryOrigin,
                             cacheKeys_query(projectName, queryText, memoryType, topK),
                             QueryArgs(projectName, queryText, memoryType, topK),
                             ~o.hit /\ ~o.threw)
    /\ UNCHANGED <<db, now, lru, lruRet, recency, retryRet, embedRet, batch, embedding, tasks,
                   pureVars>>

\* links a project may hold before the model stops creating them
MaxLinks == 3

LinkCount(projectName) ==
    Cardinality({i \in 1..Len(db.points) :
        /\ db.points[i].payload.project = projectName
        /\ db.points[i].payload.type = KNOWLEDGE_LINK_TYPE})

CreateKnowledgeLink(projectName, sourceId, targetId, linkType) ==
    /\ LinkCount(projectName) < MaxLinks
    /\ LET o == createKnowledgeLink(db, projectName, sourceId, targetId, linkType, now)
       IN  /\ db' = o.db
           /\ ret' = Ret("createKnowledgeLink", projectName, linkType, 0,
                         [threw |-> FALSE, hit |-> FALSE,
                          value |-> [sourceId |-> sourceId, targetId |-> targetId],
                          id |-> o.id])
    /\ UNCHANGED <<queryCache, contextCache, patternCache, now, lru, lruRet, recency, auxVars>>

GetKnowledgeLinks(projectName, entityId, linkType, direction) ==
    /\ \E links \in getKnowledgeLinks(db, projectName, entityId, linkType, direction) :
          ret' = Ret("getKnowledgeLinks", projectName, linkType, 0,
                     [threw |-> FALSE, hit |-> FALSE,
                      value |-> [entityId |-> entityId, direction |-> direction,
                                 links |-> links],
                      id |-> NoId])
    /\ UNCHANGED <<db, queryCache, contextCache, patternCache, now, lru, lruRet, recency, auxVars>>

\* the most entries in one batchLogMemory call
MaxLogEntries == 2

BatchLogMemory(projectName, entries, rejected) ==
    /\ PlainCount(projectName) < MaxPlain
    /\ LET o == batchLogMemory(db, projectName, entries, rejected, now)
       IN  /\ db' = o.db
           /\ ret' = Ret("batchLogMemory", projectName, NoKind, 0,
                         [threw |-> o.threw, hit |-> FALSE,
                          value |-> [entries |-> entries, ids |-> o.ids, log |-> o.log,
                                     points |-> o.points],
                          id |-> NoId])
    /\ UNCHANGED <<queryCache, contextCache, patternCache, now, lru, lruRet, recency, auxVars>>

GetCachedEmbeddings(texts) ==
    /\ LET o == getCachedEmbeddings(embedding.cache, texts, now)
       IN  embedding' = [cache |-> o.cache, texts |-> texts, vectors |-> o.results]
    /\ UNCHANGED <<lruVars, storeVars, retryRet, embedRet, batch, queryOrigin, tasks, pureVars>>

\* summarizeText is called with the configuration and text drawn at the start
SummarizeTextCall ==
    /\ ~summarizing.called
    /\ \E o \in summarizeText(summarizing.provider, summarizing.text, summarizing.env) :
          summarizing' = SummarizeCall(summarizing.provider, summarizing.env,
                                       summarizing.text, TRUE, o)
    /\ UNCHANGED <<lruVars, storeVars, retryRet, embedRet, batch, embedding, queryOrigin,
                   tasks, chunking, legacy>>

\* chunkText and preprocessText are called with the text drawn at the start
ChunkTextCall ==
    /\ ~chunking.called
    /\ chunking' = ChunkCall(chunking.text, TRUE, chunkText(chunking.text),
                             chunkSpans(chunking.text, 0, 0, << >>),
                             preprocessText(chunking.text,
                                            [openrouterKey |-> FALSE, geminiKey |-> FALSE], 1))
    /\ UNCHANGED <<lruVars, storeVars, retryRet, embedRet, batch, embedding, queryOrigin,
                   tasks, summarizing, legacy>>

\* getCachedEmbeddings with the provider the server is configured with
GetCachedEmbeddingsBy(provider, env, texts) ==
    /\ \E o \in getCachedEmbeddingsBy(provider, env, embedding.cache, texts, now) :
          embedding' = [cache |-> o.cache, texts |-> texts, vectors |-> o.results]
    /\ UNCHANGED <<lruVars, storeVars, retryRet, embedRet, batch, queryOrigin, tasks, pureVars>>

\* the log_memory tool called with a top_level_id (NoId: without one)
LogMemoryAs(projectName, memoryType, content, topLevelId) ==
    /\ PlainCount(projectName) <= MaxPlain
    /\ LET o == logMemory(db, TheCaches, projectName, memoryType, PlainText(content),
                          topLevelId, now)
       IN  /\ db' = o.db
           /\ SetCaches(o.caches)
           /\ ret' = Ret("logMemory", projectName, memoryType, 0,
                         [threw |-> o.threw, hit |-> FALSE, value |-> content, id |-> o.id,
                          embedded |-> o.embedded])
    /\ UNCHANGED <<now, lru, lruRet, recency, auxVars>>

\* the most updates in one batchUpdateStructuredContext call
MaxUpdates == 3

BatchUpdateStructuredContext(projectName, updates) ==
    /\ StructuredCount(projectName) + Len(updates) <= MaxEntries
    /\ \E o \in batchUpdateStructuredContext(db, TheCaches, projectName, updates, now) :
          /\ db' = o.db
          /\ SetCaches(o.caches)
          /\ ret' = Ret("batchUpdateStructuredContext", projectName, NoKind, 0,
                        [threw |-> o.threw, hit |-> FALSE,
                         value |-> [results |-> o.results, steps |-> o.steps,
                                    updates |-> updates],
                         id |-> NoId])
    /\ UNCHANGED <<now, lru, lruRet, recency, auxVars>>

\* cacheUtils.invalidateProjectCache, as any writer of the project calls it
InvalidateProjectCache(projectName) ==
    /\ SetCaches(invalidateProjectCache(TheCaches, projectName))
    /\ ret' = Ret("invalidateProjectCache", projectName, NoKind, 0,
                  [threw |-> FALSE, hit |-> FALSE, value |-> << >>, id |-> NoId])
    /\ UNCHANGED <<db, now, lru, lruRet, recency, auxVars>>

----------------------------------------------------------------------------
(* Concurrent callers. Node runs one continuation at a time: a call runs   *)
(* until it awaits the store, and another caller's call can run before the *)
(* answer resumes it. tasks.of[c] is the call of caller c: where it is     *)
(* suspended (pc) and its local variables.                                 *)

Callers == {"c1", "c2"}
\* calls one caller makes before the model stops it
MaxRuns == 2

\* before: the ids of the structured entries of (project, kind) when the call
\* started; mustHave: the patches that had returned when the call started
Task(op, pc, projectName, kind, patch, runs) ==
    [op |-> op, pc |-> pc, project |-> projectName, kind |-> kind, patch |-> patch,
     current |-> EmptyObject, found |-> EmptyObject, updated |-> EmptyObject,
     id |-> NoId, result |-> EmptyObject, threw |-> FALSE, runs |-> runs,
     before |-> {}, mustHave |-> EmptyObject]

\* patched: history, the merge of the patches of the updates that returned
TasksInit ==
    tasks = [of |-> [c \in Callers |-> Task("none", "idle", "", NoKind, EmptyObject, 0)],
             patched |-> EmptyObject]

TaskOf(c) == tasks.of[c]

Free(c) == TaskOf(c).pc \in {"idle", "done"} /\ TaskOf(c).runs < MaxRuns

SetTask(c, task) == tasks' = [tasks EXCEPT !.of[c] = task]

Thrown(task) == [task EXCEPT !.pc = "done", !.threw = TRUE]

\* the placeholder points initMemoryBank upserts, with ids no point has
SeedPoints(d, projectName, t) ==
    [i \in 1..Len(MEMORY_TYPES) |->
        [id |-> Len(d.points) + i,
         payload |-> [type |-> MEMORY_TYPES[i],
                      content |-> PlainText(<<"Initial placeholder for", MEMORY_TYPES[i]>>),
                      timestamp |-> t,
                      project |-> projectName]]]

\* initMemoryBank is called: it awaits client.getCollections()
InitStart(c, projectName) ==
    /\ Free(c)
    /\ SetTask(c, Task("initMemoryBank", "listing", projectName, NoKind, EmptyObject,
                       TaskOf(c).runs + 1))
    /\ UNCHANGED <<lruVars, storeVars, retryRet, embedRet, batch, embedding, queryOrigin, pureVars>>

\* the list of collections arrives: the call returns if the collection is in
\* it, else it awaits client.createCollection
InitListed(c) ==
    /\ TaskOf(c).pc = "listing"
    /\ SetTask(c, [TaskOf(c) EXCEPT
                      !.pc = IF TaskOf(c).project \in db.collections THEN "done"
                             ELSE "creating"])
    /\ UNCHANGED <<lruVars, storeVars, retryRet, embedRet, batch, embedding, queryOrigin, pureVars>>

\* createCollection reaches the store, which rejects the creation of a
\* collection that exists: the call throws. Else the call awaits the upsert of
\* the placeholders.
InitCreate(c) ==
    /\ TaskOf(c).pc = "creating"
    /\ IF TaskOf(c).project \in db.collections
       THEN /\ SetTask(c, Thrown(TaskOf(c)))
            /\ UNCHANGED db
       ELSE /\ SetTask(c, [TaskOf(c) EXCEPT !.pc = "seeding"])
            /\ db' = [db EXCEPT !.collections = @ \cup {TaskOf(c).project}]
    /\ UNCHANGED <<lruVars, queryCache, contextCache, patternCache, ret,
                   retryRet, embedRet, batch, embedding, queryOrigin, pureVars>>

\* the upsert of the placeholders reaches the store, and the call returns
InitSeed(c) ==
    /\ TaskOf(c).pc = "seeding"
    /\ db' = UpsertPoints(db, SeedPoints(db, TaskOf(c).project, now))
    /\ SetTask(c, [TaskOf(c) EXCEPT !.pc = "done"])
    /\ UNCHANGED <<lruVars, queryCache, contextCache, patternCache, ret,
                   retryRet, embedRet, batch, embedding, queryOrigin, pureVars>>

\* the ids of the structured entries of (project, kind)
StructuredIds(d, projectName, contextType) ==
    {d.points[i].id : i \in {j \in 1..Len(d.points) :
        /\ d.points[j].payload.project = projectName
        /\ Matches(d.points[j], StructuredMust(projectName, contextType))}}

\* the structured entry of (project, kind) that was written last, {} if none
LastStored(d, projectName, contextType) ==
    LET ids == StructuredIds(d, projectName, contextType)
    IN  IF ids = {} THEN EmptyObject
        ELSE LET last == CHOOSE i \in 1..Len(d.points) :
                            /\ d.points[i].id \in ids
                            /\ \A id \in ids : id <= d.points[i].id
             IN  JSONparse(d.points[last].payload.content)

\* an update that merges its patch into the entry stored when it writes
PatchedContext_Rereads(d, task) ==
    ApplyPatch(LastStored(d, task.project, task.kind), task.patch)

\* updatedContext: the patch merged into the value the call read
PatchedContext(d, task) == ApplyPatch(task.current, task.patch)

\* getStructuredContext is called, by a reader (op "getStructuredContext") or
\* as the first step of updateStructuredContext: it answers from the cache,
\* or awaits the search
ContextStart(c, op, projectName, contextType, patch) ==
    /\ Free(c)
    /\ op = "updateStructuredContext" => StructuredCount(projectName) < MaxEntries
    /\ LET cacheKey == cacheKeys_structuredContext(projectName, contextType)
           cached == getCached(contextCache, cacheKey, now)
           hit == LRUHas(contextCache, cacheKey, now).ret
           task == [Task(op, "searching", projectName, contextType, patch,
                         TaskOf(c).runs + 1)
                       EXCEPT !.before = StructuredIds(db, projectName, contextType),
                              !.mustHave = tasks.patched]
       IN  /\ contextCache' = cached.cache
           /\ SetTask(c, IF ~hit THEN task
                         ELSE IF op = "getStructuredContext"
                         THEN [task EXCEPT !.pc = "done", !.current = cached.ret,
                                           !.result = cached.ret]
                         ELSE [task EXCEPT !.pc = "write", !.current = cached.ret])
    /\ UNCHANGED <<lruVars, db, queryCache, patternCache, ret,
                   retryRet, embedRet, batch, embedding, queryOrigin, pureVars>>

\* the search reaches the store, which answers from the entries it holds now
\* (it rejects a search in a collection that does not exist)
ContextAnswer(c) ==
    /\ TaskOf(c).pc = "searching"
    /\ IF TaskOf(c).project \notin db.collections
       THEN SetTask(c, Thrown(TaskOf(c)))
       ELSE \E results \in Search(db, TaskOf(c).project,
                                  StructuredMust(TaskOf(c).project, TaskOf(c).kind), 1) :
               SetTask(c, [TaskOf(c) EXCEPT !.pc = "answered",
                                            !.found = ContextOfHits(results)])
    /\ UNCHANGED <<lruVars, storeVars, retryRet, embedRet, batch, embedding, queryOrigin, pureVars>>

\* the answer resumes the call: it caches the value and returns it
ContextResume(c) ==
    /\ TaskOf(c).pc = "answered"
    /\ contextCache' =
           setCached(contextCache, ContextCacheSize,
                     cacheKeys_structuredContext(TaskOf(c).project, TaskOf(c).kind),
                     TaskOf(c).found, DefaultTtl, now)
    /\ SetTask(c, IF TaskOf(c).op = "getStructuredContext"
                  THEN [TaskOf(c) EXCEPT !.pc = "done", !.current = TaskOf(c).found,
                                         !.result = TaskOf(c).found]
                  ELSE [TaskOf(c) EXCEPT !.pc = "write", !.current = TaskOf(c).found])
    /\ UNCHANGED <<lruVars, db, queryCache, patternCache, ret,
                   retryRet, embedRet, batch, embedding, queryOrigin, pureVars>>

\* updateStructuredContext merges the patch and awaits logStructuredMemory,
\* whose upsert reaches the store
UpdateWrite(c) ==
    /\ TaskOf(c).pc = "write"
    /\ LET updatedContext == PatchedContext(db, TaskOf(c))
           w == logStructuredMemory(db, TheCaches, TaskOf(c).project, TaskOf(c).kind,
                                    updatedContext, NoId, now)
       IN  /\ db' = w.db
           /\ SetTask(c, [TaskOf(c) EXCEPT !.pc = "history", !.updated = updatedContext,
                                           !.id = w.id])
    /\ UNCHANGED <<lruVars, queryCache, contextCache, patternCache, ret,
                   retryRet, embedRet, batch, embedding, queryOrigin, pureVars>>

\* the store is unavailable when logStructuredMemory calls it
UpdateWriteFails(c) ==
    /\ TaskOf(c).pc = "write"
    /\ SetTask(c, Thrown(TaskOf(c)))
    /\ UNCHANGED <<lruVars, storeVars, retryRet, embedRet, batch, embedding, queryOrigin, pureVars>>

\* the history entry is logged (logMemory invalidates the project's cache
\* entries), the context's cache key is deleted, and the call returns the
\* id of the entry it wrote (the task's id)
UpdateHistory(c) ==
    /\ TaskOf(c).pc = "history"
    /\ LET task == TaskOf(c)
           historyEntry == [contextType |-> task.kind,
                            previousVersion |-> task.current,
                            newVersion |-> task.updated,
                            changes |-> task.patch,
                            timestamp |-> now,
                            pointId |-> task.id]
           h == logMemory(db, TheCaches, task.project, "contextHistory",
                          JSONstringify(historyEntry), NoId, now)
       IN  /\ db' = h.db
           /\ SetCaches([h.caches EXCEPT !.context =
                  MapDelete(@, cacheKeys_structuredContext(task.project, task.kind))])
           /\ tasks' = [tasks EXCEPT
                  !.of[c] = [task EXCEPT !.pc = "done"],
                  !.patched = ApplyPatch(@, task.patch)]
    /\ UNCHANGED <<lruVars, ret, retryRet, embedRet, batch, embedding, queryOrigin, pureVars>>

\* the store is unavailable when logMemory appends the history entry
UpdateHistoryFails(c) ==
    /\ TaskOf(c).pc = "history"
    /\ SetTask(c, Thrown(TaskOf(c)))
    /\ UNCHANGED <<lruVars, storeVars, retryRet, embedRet, batch, embedding, queryOrigin, pureVars>>

----------------------------------------------------------------------------
(* withRetry, driven by operations that fail and succeed in every way *)

\* the largest retry budget of the policies tried besides RETRY_CONFIG
MaxPolicyRetries == 2

\* a policy whose cap is reached by the second delay
TightPolicy(maxRetries) ==
    [maxRetries |-> maxRetries, baseDelay |-> 1000, maxDelay |-> 1500, backoffFactor |-> 3]

RetryConfigs == {RETRY_CONFIG} \cup {TightPolicy(m) : m \in 0..MaxPolicyRetries}

ErrorMessages ==
    {<<"Quota", "exceeded">>,
     <<"Network", "timeout">>,
     <<"Too", "many", "requests", ",", "rate", "limit", "exceeded">>,
     <<"too", "many", "requests">>,
     <<"API", "key", "not", "valid">>,
     <<"Some", "other", "error">>}

Behaviours == {Succeeds(<<"done">>)} \cup {Fails(m) : m \in ErrorMessages}

\* a withRetry call: before it runs it holds its arguments only
RetryCall(retryConfig, operation, o) ==
    [config |-> retryConfig, operation |-> operation, returned |-> o.returned,
     calls |-> o.calls, delays |-> o.delays, threw |-> o.threw, value |-> o.value,
     error |-> o.error]

NotRun ==
    [returned |-> FALSE, calls |-> 0, delays |-> << >>, threw |-> FALSE,
     value |-> NoResult, error |-> NoError]

RetryInit == retryRet = RetryCall(RETRY_CONFIG, << >>, NotRun)

\* any policy, any behaviour of the operation over the attempts the policy allows
RetryInputs ==
    \E retryConfig \in RetryConfigs :
        \E operation \in [1..(retryConfig.maxRetries + 1) -> Behaviours] :
            retryRet = RetryCall(retryConfig, operation, NotRun)

WithRetryCall ==
    /\ ~retryRet.returned
    /\ Len(retryRet.operation) > 0
    /\ LET o == withRetry(retryRet.operation, retryRet.config)
       IN  retryRet' = RetryCall(retryRet.config, retryRet.operation,
                                 [returned |-> TRUE, calls |-> o.calls, delays |-> o.delays,
                                  threw |-> o.threw, value |-> o.value, error |-> o.error])
    /\ UNCHANGED <<lruVars, storeVars, embedRet, batch, moreVars>>

----------------------------------------------------------------------------
(* embedTexts, driven by texts of every shape and remote calls that fail   *)

\* the longest text tried
MaxTextLen == 6
\* the most texts in one embedTexts call
MaxTexts == 2

Chars == {"x", " ", "."}
AllTexts == UNION {[1..n -> Chars] : n \in 0..MaxTextLen}

\* a short text, one that two chunks cover, one that they do not
BatchTexts == {<<"x", ".">>, <<"x", ".", " ", "x", ".">>, <<"x", "x", "x", "x", "x", "x">>}

TextLists ==
    {<< >>} \cup {<<t>> : t \in AllTexts} \cup UNION {[1..n -> BatchTexts] : n \in 2..MaxTexts}

EmbedCall(provider, env, texts, returned, o) ==
    [provider |-> provider, env |-> env, texts |-> texts, returned |-> returned,
     vectors |-> o.vectors, log |-> o.log, processed |-> o.processed]

NoVectors == [vectors |-> << >>, log |-> << >>, processed |-> << >>]

EmbedInit ==
    embedRet = EmbedCall("Gemini", [openrouterKey |-> FALSE, geminiKey |-> FALSE],
                         << >>, TRUE, NoVectors)

EmbedInputs ==
    \E provider \in Providers, env \in Envs, texts \in TextLists :
        embedRet = EmbedCall(provider, env, texts, FALSE, NoVectors)

EmbedTextsCall ==
    /\ ~embedRet.returned
    /\ \E o \in embedTexts(embedRet.provider, embedRet.texts, embedRet.env) :
          embedRet' = EmbedCall(embedRet.provider, embedRet.env, embedRet.texts, TRUE, o)
    /\ UNCHANGED <<lruVars, storeVars, retryRet, batch, moreVars>>

EmbedNext == EmbedTextsCall

RetryNext == WithRetryCall

----------------------------------------------------------------------------
(* memoryBankTools.ts batchQueryMemory: the queries of one call are searched *)
(* concurrently; each search completes, or is rejected, on its own.          *)

\* the most queries in one batchQueryMemory call
MaxQueries == 2
\* limit: query.topK || 5
DefaultTopK == 5

\* a BatchQuery: memoryType Null and topK 0 stand for the field left out
BatchQuery(queryText, memoryType, topK) ==
    [queryText |-> queryText, memoryType |-> memoryType, topK |-> topK]

QueryInputs ==
    {BatchQuery(<<"what did we decide">>, "decisionLog", 1),
     BatchQuery(<<"how far are we">>, "progress", 0),
     BatchQuery(<<"anything">>, Null, 1)}

QueryLists == UNION {[1..n -> QueryInputs] : n \in 1..MaxQueries}

\* the filter and the limit of the search of one query
BatchMust(projectName, query) ==
    {<<"project", projectName>>} \cup
    (IF query.memoryType # Null THEN {<<"type", query.memoryType>>} ELSE {})

BatchLimit(query) == IF query.topK # 0 THEN query.topK ELSE DefaultTopK

\* a Promise.all that lists the values in the order the promises settled
PromiseAll_CompletionOrder(done, order) == [k \in 1..Len(order) |-> done[order[k]]]

\* Promise.all: the values of the promises in the order of the promises,
\* whatever the order they were fulfilled in
PromiseAll(done, order) == [i \in 1..Len(done) |-> done[i]]

\* phase: "idle", "running" (searches in flight) or "returned"; done[i]: what
\* the search of query i resolved to; order: the queries in the order their
\* searches completed; unavailable: the store rejected a call
BatchCall(phase, projectName, queries, pending, done, order, result, unavailable) ==
    [phase |-> phase, project |-> projectName, queries |-> queries, pending |-> pending,
     done |-> done, order |-> order, result |-> result, unavailable |-> unavailable]

BatchInit == batch = BatchCall("idle", "", << >>, {}, << >>, << >>, << >>, FALSE)

\* a catch that keeps the results of the searches that had completed
BatchFallback_KeepsSettled(queries) ==
    [i \in 1..Len(queries) |->
        IF batch.phase = "running" /\ i \in DOMAIN batch.done /\ i \notin batch.pending
        THEN batch.done[i]
        ELSE << >>]

\* the catch: one empty list per query
BatchFallback(queries) == [i \in 1..Len(queries) |-> << >>]

\* the call starts: initMemoryBank, then every query's search is under way
BatchStart(projectName, queries) ==
    /\ batch.phase # "running"
    /\ batch' = BatchCall("running", projectName, queries, 1..Len(queries),
                          [i \in 1..Len(queries) |-> << >>], << >>, << >>, FALSE)
    /\ db' = initMemoryBank(db, projectName, now)
    /\ UNCHANGED <<lruVars, queryCache, contextCache, patternCache, ret, retryRet, embedRet, moreVars>>

\* the call starts while the store is unavailable: initMemoryBank throws
BatchStartUnavailable(projectName, queries) ==
    /\ batch.phase # "running"
    /\ batch' = BatchCall("returned", projectName, queries, {},
                          [i \in 1..Len(queries) |-> << >>], << >>,
                          BatchFallback(queries), TRUE)
    /\ UNCHANGED <<lruVars, storeVars, retryRet, embedRet, moreVars>>

\* the search of query i completes
BatchSearchCompletes(i) ==
    /\ batch.phase = "running"
    /\ i \in batch.pending
    /\ \E results \in Search(db, batch.project, BatchMust(batch.project, batch.queries[i]),
                             BatchLimit(batch.queries[i])) :
          batch' = [batch EXCEPT !.pending = @ \ {i},
                                 !.done[i] = QueryResultsOfHits(results),
                                 !.order = Append(@, i)]
    /\ UNCHANGED <<lruVars, storeVars, retryRet, embedRet, moreVars>>

\* the search of query i is rejected: Promise.all rejects, the catch returns
BatchSearchFails(i) ==
    /\ batch.phase = "running"
    /\ i \in batch.pending
    /\ batch' = [batch EXCEPT !.phase = "returned", !.pending = {},
                              !.result = BatchFallback(batch.queries),
                              !.unavailable = TRUE]
    /\ UNCHANGED <<lruVars, storeVars, retryRet, embedRet, moreVars>>

\* every search has completed: Promise.all resolves and the call returns
BatchReturn ==
    /\ batch.phase = "running"
    /\ batch.pending = {}
    /\ batch' = [batch EXCEPT !.phase = "returned",
                              !.result = PromiseAll(batch.done, batch.order)]
    /\ UNCHANGED <<lruVars, storeVars, retryRet, embedRet, moreVars>>

\* the limit getContextHistory defaults to, and the one getSystemPatterns does
DefaultHistoryLimit == 10
DefaultPatternLimit == 50

\* what the callers of the model pass
Only(k, v) == [x \in ObjKeys |-> IF x = k THEN v ELSE Undefined]
ContentInputs == {Some(Only("a", "2"))}
PatchInputs == {Some(Only("a", "1")), Some(Only("b", "2")), Some(Only("a", DELETE))}
PlainInputs == {<<"use X">>}
\* a kind MEMORY_TYPES does not list
UnknownKind == "note"
QueryTexts == {<<"what did we decide">>}

EmbeddingInit == embedding = [cache |-> << >>, texts |-> << >>, vectors |-> << >>]
QueryOriginInit ==
    queryOrigin = [stored |-> {}, last |-> QueryArgs("", << >>, Null, 0)]
ChunkingInit == chunking = ChunkCall(<< >>, FALSE, << >>, << >>, {})
SummarizingInit ==
    summarizing = SummarizeCall("openrouter", [openrouterKey |-> FALSE, geminiKey |-> FALSE],
                                << >>, TRUE, SummarizeOutcome(<< >>, FALSE, << >>))
LegacyInit == legacy = LegacyCall(<< >>, JsNull, FALSE, 0)
PureInit == ChunkingInit /\ SummarizingInit /\ LegacyInit

MoreInit == EmbeddingInit /\ QueryOriginInit /\ TasksInit /\ PureInit

Init == LruInit /\ StoreInit /\ RetryInit /\ EmbedInit /\ BatchInit /\ MoreInit

\* one project's structured contexts
ContextNext ==
    \/ \E c \in ContentInputs : UpdateProductContext("p", c, None)
    \/ \E pc \in PatchInputs : UpdateProductContext("p", None, pc)
    \/ UpdateProductContext("p", None, None)
    \/ \E c \in ContentInputs : UpdateActiveContext("p", c, None)
    \/ \E pc \in PatchInputs : UpdateActiveContext("p", None, pc)
    \/ GetProductContext("p")
    \/ GetActiveContext("p")
    \/ \E ct \in STRUCTURED_CONTEXT_TYPES : GetContextHistory("p", ct, DefaultHistoryLimit)
    \/ \E c \in PlainInputs : LogMemory("p", "decisionLog", c)

\* The calls follow one another within one tick of the clock.
Spec == Init /\ [][ContextNext]_vars

\* one project's batches, with writes that land between the searches
BatchNext ==
    \/ \E queries \in QueryLists : BatchStart("p", queries)
    \/ \E queries \in QueryLists : BatchStartUnavailable("p", queries)
    \/ \E i \in 1..MaxQueries : BatchSearchCompletes(i)
    \/ \E i \in 1..MaxQueries : BatchSearchFails(i)
    \/ BatchReturn
    \/ \E mt \in {"decisionLog", "progress"}, c \in PlainInputs : LogMemory("p", mt, c)

BatchUpdate(contextType, patchContent) ==
    [contextType |-> contextType, patchContent |-> patchContent]

UpdateInputs ==
    {BatchUpdate(ct, pc[1]) : ct \in STRUCTURED_CONTEXT_TYPES, pc \in PatchInputs}
        \cup {BatchUpdate(UnknownKind, Only("a", "1"))}

UpdateLists == UNION {[1..n -> UpdateInputs] : n \in 0..MaxUpdates}

\* one project's batches of patches, after a write that created its collection
BatchUpdateNext ==
    \/ \E c \in PlainInputs : LogMemory("p", "decisionLog", c)
    \/ \E updates \in UpdateLists : BatchUpdateStructuredContext("p", updates)
    \/ GetProductContext("p")
    \/ GetActiveContext("p")

SpecBatchUpdate == Init /\ [][BatchUpdateNext]_vars

\* an id the caller supplies (top_level_id) that no stored point has
CallerId == 90

BatchLogEntry(memoryType, content, topLevelId) ==
    [memoryType |-> memoryType, content |-> content, topLevelId |-> topLevelId]

LogEntryInputs ==
    {BatchLogEntry(mt, PlainText(c), id) :
        mt \in {"decisionLog", "progress", UnknownKind},
        c \in {<<"use X">>, <<"ship it">>},
        id \in {NoId, CallerId}}

LogEntryLists == UNION {[1..n -> LogEntryInputs] : n \in 0..MaxLogEntries}

\* one project's batches of entries, with embeddings that resolve or are rejected
BatchLogNext ==
    \/ \E entries \in LogEntryLists, rejected \in SUBSET (1..MaxLogEntries) :
          BatchLogMemory("p", entries, rejected)
    \/ \E text \in QueryTexts : QueryMemory("p", text, "decisionLog", 1)

SpecBatchLog == Init /\ [][BatchLogNext]_vars

Entities == {"A", "B"}
LinkTypes == {"depends", "refines"}
LinkDirections == {"outgoing", "incoming", "both"}

\* one project's knowledge links
LinksNext ==
    \/ \E src \in Entities, tgt \in Entities, lt \in LinkTypes :
          CreateKnowledgeLink("p", src, tgt, lt)
    \/ \E en \in Entities, lt \in {Null, "depends"}, dir \in LinkDirections :
          GetKnowledgeLinks("p", en, lt, dir)

SpecLinks == Init /\ [][LinksNext]_vars

\* one project's writes, with and without ids of the caller
WritesNext ==
    \/ \E c \in {<<"use X">>, <<"ship it">>}, id \in {NoId, CallerId} :
          LogMemoryAs("p", "decisionLog", c, id)
    \/ \E id \in {NoId, CallerId} :
          BatchLogMemory("p", <<BatchLogEntry("progress", PlainText(<<"ship it">>), id)>>, {})
    \/ \E c \in ContentInputs : UpdateProductContext("p", c, None)
    \/ UpdateProductContext("p", None, Some(Only("a", "1")))

SpecWrites == Init /\ [][WritesNext]_vars

\* the texts embedded with Gemini configured; its calls succeed or fail
ProviderTexts == {<<"a">>, <<"b">>, <<"a", "b">>}

ProviderCacheNext ==
    \E texts \in UNION {[1..n -> ProviderTexts] : n \in 1..MaxTexts} :
        GetCachedEmbeddingsBy("Gemini", [openrouterKey |-> FALSE, geminiKey |-> TRUE], texts)

SpecProviderCache == Init /\ [][ProviderCacheNext]_vars

\* a text of more than EmbedSliceLen characters that ends in `last`
LongText(last) == [i \in 1..(EmbedSliceLen + 1) |-> IF i <= EmbedSliceLen THEN "x" ELSE last]

EmbeddedTexts == {<<"a">>, <<"b">>, <<"a", "b">>, LongText("a"), LongText("b")}

\* the texts the callers ask embeddings for, one or two in a call
EmbeddingNext ==
    \E texts \in UNION {[1..n -> EmbeddedTexts] : n \in 1..MaxTexts} :
        GetCachedEmbeddings(texts)

SpecEmbedding == Init /\ [][EmbeddingNext]_vars

\* two projects' queries, with texts that differ behind their first 50 characters
QueriesNext ==
    \/ \E pr \in Projects, c \in PlainInputs : LogMemory(pr, "decisionLog", c)
    \/ \E pr \in Projects, text \in {LongText("a"), LongText("b")} :
          QueryMemory(pr, text, "decisionLog", 1)

SpecQueries == Init /\ [][QueriesNext]_vars

\* callers that touch projects for the first time, concurrently
InitNext ==
    \/ \E c \in Callers, pr \in Projects : InitStart(c, pr)
    \/ \E c \in Callers : InitListed(c)
    \/ \E c \in Callers : InitCreate(c)
    \/ \E c \in Callers : InitSeed(c)

SpecInit == Init /\ [][InitNext]_vars

\* two callers on one structured context: c1 patches key a; c2 patches key b
\* or reads
RaceNext ==
    \/ \E c \in PlainInputs : LogMemory("p", "decisionLog", c)
    \/ ContextStart("c1", "updateStructuredContext", "p", "productContext", Only("a", "1"))
    \/ ContextStart("c2", "updateStructuredContext", "p", "productContext", Only("b", "2"))
    \/ ContextStart("c2", "getStructuredContext", "p", "productContext", EmptyObject)
    \/ \E c \in Callers : ContextAnswer(c)
    \/ \E c \in Callers : ContextResume(c)
    \/ \E c \in Callers : UpdateWrite(c)
    \/ \E c \in Callers : UpdateHistory(c)

SpecRace == Init /\ [][RaceNext]_vars

\* one caller's patches, with a store that can be unavailable at any call
FailuresNext ==
    \/ \E c \in PlainInputs : LogMemory("p", "decisionLog", c)
    \/ \E pc \in {Only("a", "1"), Only("b", "2")} :
          ContextStart("c1", "updateStructuredContext", "p", "productContext", pc)
    \/ ContextStart("c1", "getStructuredContext", "p", "productContext", EmptyObject)
    \/ ContextAnswer("c1")
    \/ ContextResume("c1")
    \/ UpdateWrite("c1")
    \/ UpdateWriteFails("c1")
    \/ UpdateHistory("c1")
    \/ UpdateHistoryFails("c1")

SpecFailures == Init /\ [][FailuresNext]_vars

\* two projects' caches: reads that fill them, writes and invalidations that
\* empty them, within one tick of the clock
CacheNext ==
    \/ \E pr \in Projects, c \in PlainInputs : LogMemory(pr, SYSTEM_PATTERN_TYPE, c)
    \/ \E pr \in Projects, c \in PlainInputs : LogMemory(pr, UnknownKind, c)
    \/ \E pr \in Projects : GetSystemPatterns(pr, DefaultPatternLimit)
    \/ \E pr \in Projects, text \in QueryTexts : QueryMemory(pr, text, "decisionLog", 1)
    \/ \E pr \in Projects : GetProductContext(pr)
    \/ \E pr \in Projects : InvalidateProjectCache(pr)

SpecCaches == Init /\ [][CacheNext]_vars

\* query texts, one of which holds the characters ":p:"
ScopedTexts == {<<"what did we decide">>, <<"see ", ":", "p", ":", " for details">>}

\* two projects' caches, filled by reads and emptied by invalidations
ScopesNext ==
    \/ \E c \in PlainInputs : LogMemory("q", SYSTEM_PATTERN_TYPE, c)
    \/ \E pr \in Projects : GetSystemPatterns(pr, DefaultPatternLimit)
    \/ \E text \in ScopedTexts : QueryMemory("q", text, "decisionLog", 1)
    \/ \E pr \in Projects : GetProductContext(pr)
    \/ \E pr \in Projects : InvalidateProjectCache(pr)
    \/ GetCachedEmbeddings(<<<<"what did we decide">>>>)

SpecScopes == Init /\ [][ScopesNext]_vars

\* chunkText and preprocessText on every text of up to MaxTextLen characters
ChunkInputs == \E text \in AllTexts : chunking = ChunkCall(text, FALSE, << >>, << >>, {})

ChunkStart ==
    /\ LruInit /\ StoreInit /\ RetryInit /\ EmbedInit /\ BatchInit
    /\ EmbeddingInit /\ QueryOriginInit /\ TasksInit
    /\ ChunkInputs /\ SummarizingInit /\ LegacyInit

ChunkNext == ChunkTextCall

SpecChunk == ChunkStart /\ [][ChunkNext]_vars

\* summarizeText under every configuration, on no text, a short and a long one
SummarizeTexts == {<< >>, <<"fix the bug">>, <<"a", " ", "long", " ", "report">>}

SummarizeInputs ==
    \E provider \in SummarizerProviders, env \in Envs, text \in SummarizeTexts :
        summarizing = SummarizeCall(provider, env, text, FALSE,
                                    SummarizeOutcome(<< >>, FALSE, << >>))

SummarizeStart ==
    /\ LruInit /\ StoreInit /\ RetryInit /\ EmbedInit /\ BatchInit
    /\ EmbeddingInit /\ QueryOriginInit /\ TasksInit
    /\ ChunkingInit /\ SummarizeInputs /\ LegacyInit

SummarizeNext == SummarizeTextCall

SpecSummarize == SummarizeStart /\ [][SummarizeNext]_vars

\* the same call on the TypeScript cache and on the legacy cache, both of
\* capacity MaxSize and under the same clock
BothGetCall(k) ==
    LET r == LRUGet(lru, k)
        l == Legacy_get(legacy.cache, k)
    IN  /\ lru' = r.cache
        /\ lruRet' = Call("get", k, 0, r.ret, FALSE, 0, lru, r.cache)
        /\ recency' = Touch(recency, k, "get")
        /\ legacy' = LegacyCall(l.cache, l.ret, FALSE, 0)
        /\ UNCHANGED <<now, storeVars, retryRet, embedRet, batch, embedding, queryOrigin,
                       tasks, chunking, summarizing>>

BothSetCall(k, v, ttl) ==
    LET c == LRUSet(lru, MaxSize, k, v, ttl, now)
    IN  /\ lru' = c
        /\ lruRet' = Call("set", k, ttl, Null, FALSE, 0, lru, c)
        /\ recency' = Touch(recency, k, "set")
        /\ legacy' = LegacyCall(Legacy_set(legacy.cache, MaxSize, k, v, ttl, now),
                                JsNull, FALSE, 0)
        /\ UNCHANGED <<now, storeVars, retryRet, embedRet, batch, embedding, queryOrigin,
                       tasks, chunking, summarizing>>

BothHasCall(k) ==
    LET r == LRUHas(lru, k, now)
        l == Legacy_has(legacy.cache, k, now)
    IN  /\ lru' = r.cache
        /\ lruRet' = Call("has", k, 0, Null, r.ret, 0, lru, r.cache)
        /\ legacy' = LegacyCall(l.cache, JsNull, l.ret, 0)
        /\ UNCHANGED <<now, recency, storeVars, retryRet, embedRet, batch, embedding,
                       queryOrigin, tasks, chunking, summarizing>>

BothGetCachedCall(k) ==
    LET r == getCached(lru, k, now)
        l == Legacy_getCached(legacy.cache, k, now)
    IN  /\ lru' = r.cache
        /\ lruRet' = Call("getCached", k, 0, r.ret, FALSE, 0, lru, r.cache)
        /\ recency' = IF LRUHas(lru, k, now).ret THEN Touch(recency, k, "get") ELSE recency
        /\ legacy' = LegacyCall(l.cache, l.ret, FALSE, 0)
        /\ UNCHANGED <<now, storeVars, retryRet, embedRet, batch, embedding, queryOrigin,
                       tasks, chunking, summarizing>>

BothSizeCall ==
    LET r == LRUSize(lru, now)
        l == Legacy_size(legacy.cache, now)
    IN  /\ lru' = r.cache
        /\ lruRet' = Call("size", NoKey, 0, Null, FALSE, r.ret, lru, r.cache)
        /\ legacy' = LegacyCall(l.cache, JsNull, FALSE, l.ret)
        /\ UNCHANGED <<now, recency, storeVars, retryRet, embedRet, batch, embedding,
                       queryOrigin, tasks, chunking, summarizing>>

\* the two caches, driven by the same calls
BothNext ==
    \/ \E k \in LruKeys : BothGetCall(k)
    \/ \E k \in LruKeys, v \in LruValues, ttl \in 0..MaxTtl : BothSetCall(k, v, ttl)
    \/ \E k \in LruKeys : BothHasCall(k)
    \/ \E k \in LruKeys : BothGetCachedCall(k)
    \/ BothSizeCall
    \/ LruTick

SpecBoth == Init /\ [][BothNext]_vars

\* the cache alone: the store stays as constructed
SpecLRU == Init /\ [][LruNext]_vars

\* withRetry alone, applied to every input
RetryStart == LruInit /\ StoreInit /\ RetryInputs /\ EmbedInit /\ BatchInit /\ MoreInit

SpecRetry == RetryStart /\ [][RetryNext]_vars

\* embedTexts alone, applied to every input
EmbedStart == LruInit /\ StoreInit /\ RetryInit /\ EmbedInputs /\ BatchInit /\ MoreInit

SpecEmbed == EmbedStart /\ [][EmbedNext]_vars

SpecBatch == Init /\ [][BatchNext]_vars

----------------------------------------------------------------------------
(* Claims about LRUCache, under SpecLRU *)

\* the present key whose last get or set call is the oldest
Oldest(c, r) ==
    r[CHOOSE i \in 1..Len(r) :
        /\ r[i].key \in MapKeys(c)
        /\ \A j \in 1..(i - 1) : r[j].key \notin MapKeys(c)].key

\* C7: a set of a key that is not present, while the cache holds MaxSize keys,
\* removes exactly one key, the one whose last get or set is the oldest, and
\* no other; the new key is added.
C7_EvictsLeastRecentlyTouched ==
    [][\A k \in LruKeys, v \in LruValues, ttl \in 0..MaxTtl :
          (LruSetCall(k, v, ttl) /\ ~MapHas(lru, k) /\ Len(lru) = MaxSize)
              => /\ MapKeys(lru) \ MapKeys(lru') = {Oldest(lru, recency)}
                 /\ MapKeys(lru') = (MapKeys(lru) \ {Oldest(lru, recency)}) \cup {k}]_lruVars

\* a set has just evicted a key although a key touched by an earlier get, and
\* not since, is still held: the get moved it out of the eviction place
C7_Witness ==
    /\ lruRet.op = "set"
    /\ Cardinality(lruRet.evicted) = 1
    /\ Len(lru) = MaxSize
    /\ \E i, j \in 1..Len(recency) :
          /\ i < j
          /\ recency[i].key \in lruRet.evicted
          /\ recency[j].key \in MapKeys(lru)
          /\ recency[j].op = "get"

\* C8: the number of stored keys never exceeds maxSize.
C8_SizeAtMostMaxSize == Cardinality(MapKeys(lru)) <= MaxSize /\ Len(lru) <= MaxSize

\* a full cache that has just taken one more key
C8_Witness ==
    /\ Len(lru) = MaxSize
    /\ lruRet.op = "set"
    /\ lruRet.evicted # {}
    /\ lruRet.key \in MapKeys(lru)

\* C9: whenever now >= expiry of a stored entry, get(key) and has(key) report
\* the key absent.
C9_ExpiredNeverVisible ==
    [][\A k \in LruKeys :
          (/\ LruGetCall(k) \/ LruHasCall(k)
           /\ MapHas(lru, k)
           /\ now >= MapGet(lru, k).expiry)
              => lruRet'.value = Null /\ lruRet'.present = FALSE]_lruVars

\* C10: a value stored with ttl = 0 is reported absent by the very next access
\* to that key (getCached or has), whether or not the clock has advanced.
C10_ZeroTtlAbsentOnNextAccess ==
    [][\A k \in LruKeys :
          (/\ lruRet.op = "set" /\ lruRet.key = k /\ lruRet.ttl = 0
           /\ LruGetCachedCall(k) \/ LruHasCall(k))
              => lruRet'.value = Null /\ lruRet'.present = FALSE]_lruVars


----------------------------------------------------------------------------
(* Claims about the structured contexts, under Spec *)

\* the structured entries of (project, kind) in the order they were written
StructuredEntries(projectName, contextType) ==
    SelectSeq(db.points, LAMBDA pt :
        /\ pt.payload.project = projectName
        /\ pt.payload.type = contextType
        /\ "structured" \in DOMAIN pt.payload)

\* the history entries of (project, kind) in the order they were written
HistoryEntries(projectName, contextType) ==
    LET hs == SelectSeq(db.points, LAMBDA pt :
                  /\ pt.payload.project = projectName
                  /\ pt.payload.type = "contextHistory"
                  /\ pt.payload.content.text = "json"
                  /\ pt.payload.content.val.contextType = contextType)
    IN  [i \in 1..Len(hs) |-> hs[i].payload.content.val]

\* the value of the structured entry written last
LatestWritten(projectName, contextType) ==
    LET es == StructuredEntries(projectName, contextType)
    IN  JSONparse(es[Len(es)].payload.content)

\* C1: a getStructuredContext that misses the cache returns the value of the
\* structured entry of that (project, kind) that was written last, never an
\* older one.
C1_ReadReturnsLatestEntry ==
    (/\ ret.op = "getStructuredContext"
     /\ ~ret.threw
     /\ ~ret.hit
     /\ Len(StructuredEntries(ret.project, ret.kind)) >= 1)
        => ret.value = LatestWritten(ret.project, ret.kind)

\* the shallow merge as the claim words it, key by key
MergedKey(previous, patch, k) ==
    IF patch[k] = DELETE THEN Undefined
    ELSE IF patch[k] # Undefined THEN patch[k]
    ELSE previous[k]

\* the values a sequence of patches gives when each is applied to the result
\* of the one before, from the empty context
RECURSIVE Replay(_)
Replay(patches) ==
    IF Len(patches) = 0 THEN << >>
    ELSE LET before == Replay(SubSeq(patches, 1, Len(patches) - 1))
             last == IF Len(before) = 0 THEN EmptyObject ELSE before[Len(before)]
         IN  Append(before, [k \in ObjKeys |-> MergedKey(last, patches[Len(patches)], k)])

\* C2: every patch writes, as the new structured entry, the shallow merge of
\* the value it read and the patch, with no sentinel stored; so a context
\* that was only ever patched, from empty, holds after each patch what the
\* patches give one after the other ({a:1}, {b:2}, {a:"__DELETE__"} end in {b:2}).
C2_PatchWritesMerge ==
    \A ct \in STRUCTURED_CONTEXT_TYPES :
        LET hs == HistoryEntries("p", ct)
            es == StructuredEntries("p", ct)
        IN  /\ \A i \in 1..Len(hs) :
                  /\ \A k \in ObjKeys :
                        /\ hs[i].newVersion[k] = MergedKey(hs[i].previousVersion, hs[i].changes, k)
                        /\ hs[i].newVersion[k] # DELETE
                  /\ \E j \in 1..Len(es) :
                        /\ es[j].id = hs[i].pointId
                        /\ JSONparse(es[j].payload.content) = hs[i].newVersion
            /\ Len(es) = Len(hs) =>
                  [i \in 1..Len(es) |-> JSONparse(es[i].payload.content)]
                      = Replay([i \in 1..Len(hs) |-> hs[i].changes])

\* C3: after n successful patches of (project, kind), getContextHistory with
\* limit >= n returns exactly n entries, one per patch, each with that patch's
\* previous value, new value, change set and entry id.
C3_HistoryRetrievable ==
    (/\ ret.op = "getContextHistory"
     /\ ~ret.threw
     /\ ret.limit >= Len(HistoryEntries(ret.project, ret.kind)))
        => LET hs == HistoryEntries(ret.project, ret.kind)
           IN  /\ Len(ret.value) = Len(hs)
               /\ \A i \in 1..Len(hs) : \E j \in 1..Len(ret.value) :
                     /\ ret.value[j].pointId = hs[i].pointId
                     /\ ret.value[j].previousVersion = hs[i].previousVersion
                     /\ ret.value[j].newVersion = hs[i].newVersion
                     /\ ret.value[j].changes = hs[i].changes

\* C4: the history of a (project, kind) is an unbroken chain: the first
\* entry's previousVersion is the empty structure, each later entry's
\* previousVersion is the newVersion of the entry before it, and the last
\* newVersion is the current structured context.
C4_HistoryChain ==
    \A ct \in STRUCTURED_CONTEXT_TYPES :
        LET hs == HistoryEntries("p", ct)
        IN  Len(hs) > 0 =>
                /\ hs[1].previousVersion = EmptyObject
                /\ \A i \in 1..(Len(hs) - 1) : hs[i + 1].previousVersion = hs[i].newVersion
                /\ hs[Len(hs)].newVersion = LatestWritten("p", ct)

\* C5: after a full-replace write of (project, kind) has returned, the next
\* getStructuredContext of that (project, kind) is not answered from the
\* cache (whatever the cache holds then was cached before the write).
C5_FullReplaceInvalidates ==
    [][(/\ ret.op = "logStructuredMemory"
        /\ ~ret.threw
        /\ ret'.op = "getStructuredContext"
        /\ ret'.project = ret.project
        /\ ret'.kind = ret.kind)
           => ~ret'.hit]_vars

----------------------------------------------------------------------------
(* Claims about the shared caches, under SpecCaches *)

\* the keys cacheKeys generates for a project, over the model's inputs
KeysOfProject(projectName) ==
    {cacheKeys_query(projectName, text, mt, topK) :
        text \in QueryTexts, mt \in {Null, "decisionLog"}, topK \in {1}}
    \cup {cacheKeys_structuredContext(projectName, ct) : ct \in STRUCTURED_CONTEXT_TYPES}
    \cup {cacheKeys_systemPatterns(projectName)}

\* C6: after invalidateProjectCache(p) returns, none of queryCache,
\* contextCache and patternCache holds a key generated by cacheKeys for p.
C6_InvalidateRemovesProjectKeys ==
    ret.op = "invalidateProjectCache" =>
        (MapKeys(queryCache) \cup MapKeys(contextCache) \cup MapKeys(patternCache))
            \cap KeysOfProject(ret.project) = {}

----------------------------------------------------------------------------
(* Claims about withRetry, under SpecRetry *)

\* the category of the error the k-th invocation failed with
CategoryAt(k) == categorizeGeminiError(retryRet.operation[k].message)

FailFastCategories == {"AUTHENTICATION_ERROR", "QUOTA_ERROR"}

\* the k-th invocation was made and failed
FailedAt(k) == k <= retryRet.calls /\ ~retryRet.operation[k].ok

\* C11: an attempt that fails with an AUTHENTICATION_ERROR or a QUOTA_ERROR is
\* the last one: no delay follows it and withRetry throws that very error; a
\* first failure "quota exceeded" means exactly one attempt.
C11_FailFastOnAuthAndQuota ==
    retryRet.returned =>
        /\ \A k \in 1..retryRet.calls :
              (FailedAt(k) /\ CategoryAt(k) \in FailFastCategories)
                  => /\ retryRet.calls = k
                     /\ Len(retryRet.delays) = k - 1
                     /\ retryRet.threw
                     /\ retryRet.error = [message |-> retryRet.operation[k].message, at |-> k]
        /\ (/\ ~retryRet.operation[1].ok
            /\ Includes(toLowerCase(retryRet.operation[1].message), <<"quota", "exceeded">>))
               => retryRet.calls = 1

\* a retry, then an authentication failure that ends the call with budget left
C11_Witness ==
    /\ retryRet.returned
    /\ retryRet.config = RETRY_CONFIG
    /\ retryRet.calls = 2
    /\ retryRet.threw
    /\ CategoryAt(1) = "NETWORK_ERROR"
    /\ CategoryAt(2) = "AUTHENTICATION_ERROR"

\* the delay the policy prescribes after the failure of attempt k (k = 0, 1, ...)
Backoff(retryConfig, k) ==
    LET raw == retryConfig.baseDelay * Pow(retryConfig.backoffFactor, k)
    IN  IF raw <= retryConfig.maxDelay THEN raw ELSE retryConfig.maxDelay

\* the operation fails retryably j times, then succeeds
FailsThenSucceeds(j) ==
    /\ j + 1 <= Len(retryRet.operation)
    /\ retryRet.operation[j + 1].ok
    /\ \A k \in 1..j : /\ ~retryRet.operation[k].ok
                       /\ CategoryAt(k) \notin FailFastCategories

AlwaysFailsRetryably ==
    \A k \in 1..Len(retryRet.operation) :
        ~retryRet.operation[k].ok /\ CategoryAt(k) \notin FailFastCategories

C14_RateLimitIsRetried ==
    (/\ retryRet.returned
     /\ ~retryRet.operation[1].ok
     /\ \/ Includes(toLowerCase(retryRet.operation[1].message), <<"rate", "limit">>)
        \/ Includes(toLowerCase(retryRet.operation[1].message), <<"too", "many", "requests">>))
        => /\ CategoryAt(1) = "RATE_LIMIT"
           /\ retryRet.config.maxRetries >= 1 => retryRet.calls >= 2

----------------------------------------------------------------------------
(* Claims about the embedding providers, under SpecEmbed *)

RetryableCategories == {"NETWORK_ERROR", "RATE_LIMIT", "UNKNOWN_ERROR"}

SameCall(e1, e2) == e1.i = e2.i /\ e1.endpoint = e2.endpoint /\ e1.input = e2.input

\* the call logged at k ended a run of maxRetries + 1 failed attempts of it
BudgetSpentAt(log, k) ==
    /\ k > RETRY_CONFIG.maxRetries
    /\ \A j \in (k - RETRY_CONFIG.maxRetries)..k : ~log[j].ok /\ SameCall(log[j], log[k])

\* C15: a call of an embedding or completion endpoint that fails with a
\* NETWORK_ERROR, RATE_LIMIT or UNKNOWN_ERROR is made again, unless it was the
\* last attempt of the retry budget; only then is a fallback taken.
C15_RemoteCallsAreRetried ==
    embedRet.returned =>
        \A k \in 1..Len(embedRet.log) :
            (/\ ~embedRet.log[k].ok
             /\ categorizeGeminiError(embedRet.log[k].message) \in RetryableCategories)
                => \/ k < Len(embedRet.log) /\ SameCall(embedRet.log[k + 1], embedRet.log[k])
                   \/ BudgetSpentAt(embedRet.log, k)

\* the calls of the embedding endpoint made for the text of index i
EmbedCallsFor(i) ==
    SelectSeq(embedRet.log, LAMBDA e : e.i = i /\ e.endpoint = "embed")

\* C16: embedTexts returns one vector per text, in the order of the texts; the
\* vector of a text one of whose provider calls failed is the FastEmbed vector
\* of the whole text, and the vector of every other text is the provider's,
\* of exactly what was sent for that text.
C16_OneVectorPerTextFallbackPerText ==
    embedRet.returned =>
        /\ Len(embedRet.vectors) = Len(embedRet.texts)
        /\ \A i \in 1..Len(embedRet.texts) :
              LET calls == EmbedCallsFor(i)
              IN  IF \E k \in 1..Len(calls) : ~calls[k].ok
                  THEN embedRet.vectors[i] = FastEmbedVector(embedRet.texts[i])
                  ELSE /\ Len(calls) >= 1
                       /\ embedRet.vectors[i].by = embedRet.provider
                       /\ embedRet.vectors[i].of = [k \in 1..Len(calls) |-> calls[k].input]
                       /\ Len(embedRet.texts[i]) <= MAX_TEXT_LENGTH_FOR_EMBEDDING
                              => embedRet.vectors[i].of = <<embedRet.texts[i]>>

\* two texts: the second chunk of the first failed after the first chunk was
\* embedded, and the second text has the provider's vector
C16_Witness ==
    /\ embedRet.returned
    /\ Len(embedRet.texts) = 2
    /\ Len(EmbedCallsFor(1)) = 2
    /\ EmbedCallsFor(1)[1].ok
    /\ ~EmbedCallsFor(1)[2].ok
    /\ embedRet.vectors[1].by = FastEmbed
    /\ embedRet.vectors[2].by = embedRet.provider

\* what of the text lies behind the last slice chunkText took
DroppedTail(text) ==
    Trim(JsSlice(text, chunkLoop(text, 0, << >>, 0).consumed, Len(text)))

\* C17: for a text longer than the threshold, preprocessText gives a chunk
\* list only when the chunks reach the end of the text; when chunkText stopped
\* at MAX_CHUNKS_PER_TEXT chunks with text left, it gives one string, the
\* result of summarizeForEmbedding.
C17_NoSilentTruncation ==
    embedRet.returned =>
        \A i \in 1..Len(embedRet.texts) :
            (/\ Len(embedRet.texts[i]) > MAX_TEXT_LENGTH_FOR_EMBEDDING
             /\ embedRet.processed[i].isArray)
                => DroppedTail(embedRet.texts[i]) = << >>

----------------------------------------------------------------------------
(* Claims about validation and missing data in the store *)

C19_ReadWithoutWriteIsEmpty ==
    (/\ ret.op = "getStructuredContext"
     /\ Len(StructuredEntries(ret.project, ret.kind)) = 0)
        => /\ ~ret.threw
           /\ ret.value = EmptyObject

----------------------------------------------------------------------------
(* Claims about batchQueryMemory, under SpecBatch *)

\* result i is a result of query i: at most its limit of hits, all of its kind
AnswersQuery(result, query) ==
    /\ Len(result) <= BatchLimit(query)
    /\ query.memoryType # Null => \A k \in 1..Len(result) : result[k].type = query.memoryType
    /\ \A k, l \in 1..Len(result) : k # l => result[k].id # result[l].id

\* C20: a batchQueryMemory of a non-empty list returns, without throwing, a
\* list of the same length whose i-th element is what the search of the i-th
\* query resolved to, whatever order the searches completed in; when the
\* store is unavailable it returns one empty list per query.
C20_BatchKeepsInputOrder ==
    (batch.phase = "returned" /\ Len(batch.queries) > 0) =>
        /\ Len(batch.result) = Len(batch.queries)
        /\ \A i \in 1..Len(batch.queries) :
              IF batch.unavailable
              THEN batch.result[i] = << >>
              ELSE /\ batch.result[i] = batch.done[i]
                   /\ AnswersQuery(batch.result[i], batch.queries[i])

\* two searches that completed in the reverse order, with different results
C20_Witness ==
    /\ batch.phase = "returned"
    /\ ~batch.unavailable
    /\ batch.order = <<2, 1>>
    /\ batch.queries[1].memoryType = "decisionLog"
    /\ batch.queries[2].memoryType = "progress"
    /\ Len(batch.result[1]) > 0
    /\ Len(batch.result[2]) > 0
    /\ batch.result[1] # batch.result[2]

----------------------------------------------------------------------------
(* Claims about batchUpdateStructuredContext, under SpecBatchUpdate *)

\* the update before update i of the batch that patched the same kind, or 0
PreviousOfKind(steps, i) ==
    IF \E j \in 1..(i - 1) : steps[j].contextType = steps[i].contextType
    THEN CHOOSE j \in 1..(i - 1) :
            /\ steps[j].contextType = steps[i].contextType
            /\ \A k \in (j + 1)..(i - 1) : steps[k].contextType # steps[i].contextType
    ELSE 0

\* C21: the updates of one batchUpdateStructuredContext call are applied in
\* input order, and an update that follows another one of the same kind in
\* the batch reads the value that one wrote, so that the last value of a kind
\* holds the effect of every update of the batch to it.
C21_BatchUpdatesChain ==
    (ret.op = "batchUpdateStructuredContext" /\ ~ret.threw) =>
        /\ Len(ret.value.steps) = Len(ret.value.updates)
        /\ \A i \in 1..Len(ret.value.steps) :
              /\ ret.value.steps[i].contextType = ret.value.updates[i].contextType
              /\ ret.value.steps[i].changes = ret.value.updates[i].patchContent
              /\ ret.value.steps[i].new =
                     ApplyPatch(ret.value.steps[i].previous, ret.value.steps[i].changes)
              /\ PreviousOfKind(ret.value.steps, i) # 0 =>
                     ret.value.steps[i].previous =
                         ret.value.steps[PreviousOfKind(ret.value.steps, i)].new

----------------------------------------------------------------------------
(* Claims about batchLogMemory, under SpecBatchLog *)

\* the placeholder points of initMemoryBank
IsPlaceholder(pt) ==
    /\ pt.payload.content.text = "plain"
    /\ pt.payload.content.val[1] = "Initial placeholder for"

----------------------------------------------------------------------------
(* Claims about the knowledge links, under SpecLinks *)

\* the links created in the project that the call asks for
LinksAskedFor ==
    {i \in 1..Len(db.points) :
        /\ db.points[i].payload.project = ret.project
        /\ db.points[i].payload.type = KNOWLEDGE_LINK_TYPE
        /\ ret.kind # Null => db.points[i].payload.linkType = ret.kind
        /\ \/ /\ ret.value.direction \in {"outgoing", "both"}
              /\ db.points[i].payload.sourceId = ret.value.entityId
           \/ /\ ret.value.direction \in {"incoming", "both"}
              /\ db.points[i].payload.targetId = ret.value.entityId}

\* C23: getKnowledgeLinks(entity, type, direction) returns exactly the links
\* created in the project (of that type, when one is given) whose source is
\* the entity for "outgoing", whose target is the entity for "incoming", and
\* the union for "both", each link once, however many links the project holds.
C23_LinksByDirection ==
    ret.op = "getKnowledgeLinks" =>
        /\ {ret.value.links[k].id : k \in 1..Len(ret.value.links)} =
               {db.points[i].id : i \in LinksAskedFor}
        /\ Len(ret.value.links) = Cardinality(LinksAskedFor)

----------------------------------------------------------------------------
(* Claims about the stored entries, under SpecWrites *)

\* C24: stored entries are append-only: no write (logMemory,
\* logStructuredMemory, updateStructuredContext, batchLogMemory, with or
\* without an id of the caller) removes an entry or changes its kind or its
\* content; a write only adds entries.
C24_EntriesAreAppendOnly ==
    [][\A i \in 1..Len(db.points) :
          \E j \in 1..Len(db'.points) :
              /\ db'.points[j].id = db.points[i].id
              /\ db'.points[j].payload.type = db.points[i].payload.type
              /\ db'.points[j].payload.content = db.points[i].payload.content
    ]_vars

----------------------------------------------------------------------------
(* Claims about the embedding cache, under SpecEmbedding *)

\* C26: getCachedEmbeddings returns, for each text, a vector that was made of
\* exactly that text: two different texts never share an entry of the
\* embedding cache, also when they have the same length and the same first
\* 50 characters.
C26_EmbeddingIsOfItsText ==
    /\ Len(embedding.vectors) = Len(embedding.texts)
    /\ \A i \in 1..Len(embedding.texts) : embedding.vectors[i] = EmbeddingOf(embedding.texts[i])

----------------------------------------------------------------------------
(* Claims about the query cache, under SpecQueries *)

\* C27: queryMemory returns a cached result only when that result was
\* computed for the same project, the same whole query text, the same kind
\* and the same topK, so that an earlier query with another text or project
\* never decides what a later query returns; and the hits of a query on a
\* project are entries of that project.
C27_CachedResultIsOfSameQuery ==
    (ret.op = "queryMemory" /\ ~ret.threw) =>
        /\ ret.hit =>
              \E e \in queryOrigin.stored :
                  /\ e.key = cacheKeys_query(queryOrigin.last.project, queryOrigin.last.text,
                                             queryOrigin.last.kind, queryOrigin.last.topK)
                  /\ e.args = queryOrigin.last
        /\ \A k \in 1..Len(ret.value) :
              \E i \in 1..Len(db.points) :
                  /\ db.points[i].id = ret.value[k].id
                  /\ db.points[i].payload.project = ret.project

----------------------------------------------------------------------------
(* Claims about concurrent first touches of a project, under SpecInit *)

PlaceholdersOf(projectName, memoryType) ==
    {i \in 1..Len(db.points) :
        /\ db.points[i].payload.project = projectName
        /\ db.points[i].payload.type = memoryType
        /\ IsPlaceholder(db.points[i])}

\* C28: when the callers that touched a project have all returned from
\* initMemoryBank, however their calls interleaved, the project's collection
\* exists, holds exactly one placeholder point per kind, and no caller has
\* failed because another one created the collection in between.
C28_CollectionSeededOnce ==
    \A pr \in Projects :
        (/\ \E c \in Callers : TaskOf(c).op = "initMemoryBank" /\ TaskOf(c).project = pr
         /\ \A c \in Callers :
               (TaskOf(c).op = "initMemoryBank" /\ TaskOf(c).project = pr)
                   => TaskOf(c).pc = "done")
        => /\ pr \in db.collections
           /\ \A k \in 1..Len(MEMORY_TYPES) :
                 Cardinality(PlaceholdersOf(pr, MEMORY_TYPES[k])) = 1
           /\ \A c \in Callers :
                 (TaskOf(c).op = "initMemoryBank" /\ TaskOf(c).project = pr)
                     => ~TaskOf(c).threw

----------------------------------------------------------------------------
(* Claims about concurrent callers of one structured context, under SpecRace *)

\* C25: two updateStructuredContext calls of different callers on the same
\* (project, kind), with patches of different keys, are not serialized: when
\* both have read the same value, one that has neither patch, both return
\* successfully and the structured entry written last holds the patch of only
\* one of them.
C25_ConcurrentPatchesLoseOne ==
    LET t1 == TaskOf("c1")
        t2 == TaskOf("c2")
        last == LastStored(db, "p", "productContext")
    IN  (/\ t1.op = "updateStructuredContext" /\ t1.pc = "done" /\ ~t1.threw
         /\ t2.op = "updateStructuredContext" /\ t2.pc = "done" /\ ~t2.threw
         /\ t1.current = t2.current
         /\ t1.current["a"] # "1"
         /\ t1.current["b"] # "2")
        => /\ last \in {t1.updated, t2.updated}
           /\ (last["a"] = "1") # (last["b"] = "2")

\* both patches returned and the entry written last has lost the patch of c1
C25_Witness ==
    /\ TaskOf("c1").op = "updateStructuredContext"
    /\ TaskOf("c1").pc = "done" /\ ~TaskOf("c1").threw /\ TaskOf("c1").id # NoId
    /\ TaskOf("c2").op = "updateStructuredContext"
    /\ TaskOf("c2").pc = "done" /\ ~TaskOf("c2").threw /\ TaskOf("c2").id # NoId
    /\ TaskOf("c1").current = EmptyObject
    /\ TaskOf("c2").current = EmptyObject
    /\ LastStored(db, "p", "productContext") = Only("b", "2")

\* C29: a patch that has returned is visible to every read that starts
\* afterwards: the value the read returns holds the keys of the patch, also
\* when another read was suspended on its search while the patch ran.
C29_ReturnedPatchIsVisible ==
    \A c \in Callers :
        (TaskOf(c).op = "getStructuredContext" /\ TaskOf(c).pc = "done" /\ ~TaskOf(c).threw)
        => \A k \in ObjKeys :
              TaskOf(c).mustHave[k] # Undefined => TaskOf(c).result[k] = TaskOf(c).mustHave[k]

----------------------------------------------------------------------------
(* Claims about updateStructuredContext and store failures, under SpecFailures *)

\* C30: an updateStructuredContext that throws leaves the structured entries
\* of (project, kind) as they were before the call.
C30_FailedUpdateLeavesNoEntry ==
    (/\ TaskOf("c1").op = "updateStructuredContext"
     /\ TaskOf("c1").pc = "done"
     /\ TaskOf("c1").threw)
    => StructuredIds(db, TaskOf("c1").project, TaskOf("c1").kind) = TaskOf("c1").before

----------------------------------------------------------------------------
(* Claims about batch writes and the query cache, under SpecBatchLog *)

\* C31: a queryMemory call that follows a batchLogMemory of the same project
\* that returned is answered by a search of the store, not by an entry of
\* the query cache (batchLogMemory stores no query result, so an entry that
\* answers was created before the batch).
C31_BatchWriteInvalidatesQueries ==
    [][(/\ ret.op = "batchLogMemory"
        /\ ~ret.threw
        /\ ret'.op = "queryMemory"
        /\ ret'.project = ret.project)
       => ~ret'.hit]_<<ret.op, ret.project, ret.threw, ret.hit>>

----------------------------------------------------------------------------
(* Claims about malformed batches of updates, under SpecBatchUpdate *)

\* the call that has just returned is a batchUpdateStructuredContext that
\* threw at an update of an unrecognized contextType, the updates before it
\* being of recognized kinds and applied
ThrewAtUnknownKind ==
    /\ ret.op = "batchUpdateStructuredContext"
    /\ ret.threw
    /\ Len(ret.value.steps) < Len(ret.value.updates)
    /\ ret.value.updates[Len(ret.value.steps) + 1].contextType
           \notin STRUCTURED_CONTEXT_TYPES

\* C32: a batchUpdateStructuredContext that throws because one of its updates
\* has an unrecognized contextType has applied none of the updates before
\* it: the store holds the entries it held before the call (no structured
\* entry and no history entry was written).
C32_MalformedBatchHasNoEffect ==
    [][ThrewAtUnknownKind' => db' = db]_db

----------------------------------------------------------------------------
(* Claims about the fallback of batchQueryMemory, under SpecBatch *)

\* C33: what batchQueryMemory returns is never a mix of real and fallback
\* results: either no call of the batch was rejected, every search has
\* completed and element i is what the search of query i resolved to, or a
\* call was rejected (initMemoryBank, an embedding or a search) and every
\* element is the empty list, also for the queries whose search had completed.
C33_BatchIsAllOrNothing ==
    batch.phase = "returned" =>
        IF batch.unavailable
        THEN \A i \in 1..Len(batch.queries) : batch.result[i] = << >>
        ELSE /\ batch.pending = {}
             /\ {batch.order[k] : k \in 1..Len(batch.order)} = 1..Len(batch.queries)
             /\ \A i \in 1..Len(batch.queries) : batch.result[i] = batch.done[i]

\* the second search was rejected after the first had completed with hits
C33_Witness ==
    /\ batch.phase = "returned"
    /\ batch.unavailable
    /\ batch.order = <<1>>
    /\ Len(batch.queries) = 2
    /\ Len(batch.done[1]) > 0
    /\ batch.result = <<<< >>, << >>>>

----------------------------------------------------------------------------
(* Claims about the embedding cache and the fallback, under SpecProviderCache *)

\* C34: with a remote provider configured, every vector the embedding cache
\* holds was returned by that provider: the FastEmbed vector made for a text
\* whose provider call failed is not stored, so the next request for the
\* text calls the provider again.
C34_CacheHoldsProviderVectors ==
    \A i \in 1..Len(embedding.cache) : embedding.cache[i].value.by # FastEmbed

----------------------------------------------------------------------------
(* Claims about the scope of an invalidation, under SpecScopes *)

\* the keys of a cache that were created for another project than projectName
KeysOfOthers(projectName) ==
    [query |-> {e.key : e \in {o \in queryOrigin.stored : o.args.project # projectName}}
                   \cap MapKeys(queryCache),
     context |-> {cacheKeys_structuredContext(q, ct) :
                     q \in Projects \ {projectName}, ct \in STRUCTURED_CONTEXT_TYPES}
                     \cap MapKeys(contextCache),
     pattern |-> {cacheKeys_systemPatterns(q) : q \in Projects \ {projectName}}
                     \cap MapKeys(patternCache)]

\* C35: invalidateProjectCache(p) leaves the embedding cache as it is and
\* removes from queryCache, contextCache and patternCache no entry that was
\* created for another project, whatever the query texts involved. (The
\* step is the call's: the call is the one that returned last and was not
\* before.)
C35_InvalidationIsScoped ==
    [][\A p \in Projects :
          (/\ ret'.op = "invalidateProjectCache" /\ ret'.project = p
           /\ ~(ret.op = "invalidateProjectCache" /\ ret.project = p))
          => /\ embedding' = embedding
             /\ KeysOfOthers(p).query \subseteq MapKeys(queryCache')
             /\ KeysOfOthers(p).context \subseteq MapKeys(contextCache')
             /\ KeysOfOthers(p).pattern \subseteq MapKeys(patternCache')
      ]_<<queryCache, contextCache, patternCache, embedding>>

----------------------------------------------------------------------------
(* Claims about chunkText, under SpecChunk *)

\* the spans of the chunks chunkText returned, in order
ChunkSpansOf(spans) == SelectSeq(spans, LAMBDA sp : sp.pushed)

\* C36: the span of every chunk but the first starts exactly CHUNK_OVERLAP
\* characters before the place in the text where the span of the chunk before
\* it ends, and reaches beyond that place (it is not inside its predecessor).
C36_ChunksOverlapExactly ==
    chunking.called =>
        LET spans == ChunkSpansOf(chunking.spans)
        IN  /\ Len(spans) = Len(chunking.chunks)
            /\ \A i \in 1..(Len(spans) - 1) :
                  /\ spans[i + 1].start = spans[i].end - CHUNK_OVERLAP
                  /\ spans[i + 1].end > spans[i].end

\* C37: the loop of chunkText ends, its start position growing in every
\* iteration (so it makes at most one iteration per character), and it
\* returns at most MAX_CHUNKS_PER_TEXT chunks, each non-empty and of at most
\* MAX_CHUNK_SIZE characters; preprocessText returns a text of at most
\* MAX_TEXT_LENGTH_FOR_EMBEDDING characters as it is, calling nobody.
C37_ChunkingIsBounded ==
    chunking.called =>
        /\ \A i \in 1..(Len(chunking.spans) - 1) :
              chunking.spans[i + 1].start > chunking.spans[i].start
        /\ Len(chunking.spans) <= Len(chunking.text)
        /\ Len(chunking.chunks) <= MAX_CHUNKS_PER_TEXT
        /\ \A i \in 1..Len(chunking.chunks) :
              /\ Len(chunking.chunks[i]) > 0
              /\ Len(chunking.chunks[i]) <= MAX_CHUNK_SIZE
        /\ Len(chunking.text) <= MAX_TEXT_LENGTH_FOR_EMBEDDING =>
              chunking.processed =
                  {[isArray |-> FALSE, parts |-> <<chunking.text>>, log |-> << >>]}

\* a text that the loop left at MAX_CHUNKS_PER_TEXT chunks, after an
\* iteration whose slice was blank and pushed nothing
C37_Witness ==
    /\ chunking.called
    /\ Len(chunking.text) > MAX_TEXT_LENGTH_FOR_EMBEDDING
    /\ Len(chunking.chunks) = MAX_CHUNKS_PER_TEXT
    /\ Len(chunking.spans) > Len(chunking.chunks)

----------------------------------------------------------------------------
(* Claims about summarizeText, under SpecSummarize *)

\* C38: summarizeText does not throw, whichever of its calls fails. For no
\* text it returns "" and calls no provider. For a text it calls the
\* configured provider first (OpenRouter when it does not know the provider);
\* only when that call failed and the provider is not OpenRouter it calls
\* OpenRouter, once; it returns the summary of the call that succeeded, and
\* the text itself when none did.
C38_SummarizeNeverRaises ==
    summarizing.called =>
        /\ ~summarizing.threw
        /\ IF Len(summarizing.text) = 0
           THEN /\ summarizing.value = << >>
                /\ summarizing.log = << >>
           ELSE /\ Len(summarizing.log) \in {1, 2}
                /\ summarizing.log[1].helper = SummarizerOf(summarizing.provider)
                /\ Len(summarizing.log) = 2 <=>
                       (~summarizing.log[1].ok /\ summarizing.provider # "openrouter")
                /\ Len(summarizing.log) = 2 => summarizing.log[2].helper = "openrouter"
                /\ \A k \in 1..(Len(summarizing.log) - 1) : ~summarizing.log[k].ok
                /\ summarizing.value =
                       IF summarizing.log[Len(summarizing.log)].ok
                       THEN Summary
                       ELSE summarizing.text

\* Gemini failed, the fallback to OpenRouter failed too, and the text came back
C38_Witness ==
    /\ summarizing.called
    /\ summarizing.provider = "gemini"
    /\ Len(summarizing.text) > 0
    /\ Len(summarizing.log) = 2
    /\ ~summarizing.log[2].ok
    /\ summarizing.value = summarizing.text

----------------------------------------------------------------------------
(* Claims about the legacy cache and the TypeScript cache, under SpecBoth *)

\* C39: after the same calls under the same clock, the call made last has
\* returned the same on the legacy cache and on the TypeScript cache: the
\* same value (of the same type) for get and getCached, the same answer for
\* has, the same number for size.
C39_LegacyCacheIsEquivalent ==
    /\ legacy.value = JsOf(lruRet.value)
    /\ legacy.present = lruRet.present
    /\ legacy.size = lruRet.size

====
